---- MODULE Spec2Model ----
(***************************************************************************)
(* A model of the Arkiv RFQ SDK: the retry executor (utils/retry.ts), the  *)
(* validators (utils/validation.ts) and the RFQ lifecycle manager          *)
(* (client/ArkivRFQClient.ts) running against an entity store with atomic  *)
(* per-key write/read/delete.                                              *)
(*                                                                         *)
(* JavaScript strings are sequences of one-character strings, so that      *)
(* toLowerCase, includes and the validators' regular expressions are       *)
(* computed character by character.                                        *)
(***************************************************************************)
EXTENDS Integers, Sequences, FiniteSets, TLC

VARIABLES
    entities,   \* the store: entity key -> entity, for the keys it holds
    signer,     \* ArkivRFQClient.signer: NoSigner or the configured signer
    now,        \* the wall clock, in UNIX seconds
    calls,      \* the client calls in flight or finished, one per call slot
    faults,     \* number of times a collaborator (store, wallet) has thrown
    rt,         \* one execution of withRetry on its own (RetrySpec)
    watchers,   \* the store's watchers array
    feed,       \* the notifications delivered to watchers and the handlers
                \* of watchRFQs' options they called, oldest first
    unsubscribed, \* per watchRFQs call, the times its unsubscribe was called
    ledger      \* the tokens' balances and allowances, and the transactions
                \* sent to RFQSettlement

watchVars == <<watchers, feed, unsubscribed>>

vars == <<entities, signer, now, calls, faults, rt, watchers, feed, unsubscribed, ledger>>

(***************************************************************************)
(* Bounds of the model.                                                    *)
(***************************************************************************)
\* failures of the store and the wallet in one behaviour
MaxFaults == 4
\* seconds the clock may advance
MaxTicks == 1
\* the clock's first value (UNIX seconds)
StartTime == 1700000000
\* largest maxRetries among the configurations RetrySpec draws
MaxRetriesDrawn == 3

\* watchRFQs calls, calls of each unsubscribe function, and 'updated'
\* notifications the store delivers
MaxWatchers == 2

MaxUnsubscribes == 2

MaxSimulated == 1

\* no token is deployed
NoLedger ==
    [balances |-> <<>>, allowances |-> <<>>, trades |-> 0, transactions |-> 0, tokenCalls |-> 0]

(***************************************************************************)
(* Strings.                                                                *)
(***************************************************************************)
Rep(c, n) == [i \in 1..n |-> c]

Digits == {"0", "1", "2", "3", "4", "5", "6", "7", "8", "9"}

HexDigits == Digits \cup {"a", "b", "c", "d", "e", "f", "A", "B", "C", "D", "E", "F"}

UpperToLower ==
    [c \in {"A", "B", "C", "D", "E", "F", "G", "H", "I", "J", "K", "L", "M",
            "N", "O", "P", "Q", "R", "S", "T", "U", "V", "W", "X", "Y", "Z"} |->
        CASE c = "A" -> "a" [] c = "B" -> "b" [] c = "C" -> "c" [] c = "D" -> "d"
          [] c = "E" -> "e" [] c = "F" -> "f" [] c = "G" -> "g" [] c = "H" -> "h"
          [] c = "I" -> "i" [] c = "J" -> "j" [] c = "K" -> "k" [] c = "L" -> "l"
          [] c = "M" -> "m" [] c = "N" -> "n" [] c = "O" -> "o" [] c = "P" -> "p"
          [] c = "Q" -> "q" [] c = "R" -> "r" [] c = "S" -> "s" [] c = "T" -> "t"
          [] c = "U" -> "u" [] c = "V" -> "v" [] c = "W" -> "w" [] c = "X" -> "x"
          [] c = "Y" -> "y" [] c = "Z" -> "z"]

\* String.prototype.toLowerCase
toLowerCase(s) ==
    [i \in 1..Len(s) |-> IF s[i] \in DOMAIN UpperToLower THEN UpperToLower[s[i]] ELSE s[i]]

\* String.prototype.includes
includes(s, sub) ==
    \E i \in 0..(Len(s) - Len(sub)) : SubSeq(s, i + 1, i + Len(sub)) = sub

\* the WhiteSpace and LineTerminator code points String.prototype.trim
\* strips, as far as a string literal can spell them: space, tab, line feed,
\* vertical tab (U+000B, written as the character itself), form feed,
\* carriage return
WhiteSpace == {" ", "\t", "\n", "", "\f", "\r"}

\* String.prototype.trim
RECURSIVE trimLeft(_)
trimLeft(s) == IF s # <<>> /\ Head(s) \in WhiteSpace THEN trimLeft(Tail(s)) ELSE s

RECURSIVE trimRight(_)
trimRight(s) ==
    IF s # <<>> /\ s[Len(s)] \in WhiteSpace THEN trimRight(SubSeq(s, 1, Len(s) - 1)) ELSE s

trim(s) == trimRight(trimLeft(s))

DigitChar == <<"0", "1", "2", "3", "4", "5", "6", "7", "8", "9">>

\* `${n}` for a non-negative integer n
RECURSIVE Dec(_)
Dec(n) == IF n < 10 THEN <<DigitChar[n + 1]>> ELSE Dec(n \div 10) \o <<DigitChar[(n % 10) + 1]>>

\* a string-valued local that has no value yet
Undefined == <<"undefined">>

\* null, and an object-valued local that has no value yet
Null == [null |-> TRUE]

(***************************************************************************)
(* errors/index.ts: an error is its name, its message and the error it     *)
(* wraps.                                                                  *)
(***************************************************************************)
NoError == [name |-> "none", message |-> <<>>]

ArkivNetworkError(message, originalError) ==
    [name |-> "ArkivNetworkError",
     message |-> <<"N", "e", "t", "w", "o", "r", "k", " ", "e", "r", "r", "o", "r", ":", " ">> \o message,
     originalError |-> originalError]

\* SignatureError whose constructor leaves the name of the base class
SignatureErrorUnnamed(message, originalError) ==
    [name |-> "ArkivRFQError",
     message |-> <<"S", "i", "g", "n", "a", "t", "u", "r", "e", " ", "e", "r", "r", "o", "r", ":", " ">> \o message,
     originalError |-> originalError]

SignatureError(message, originalError) ==
    [name |-> "SignatureError",
     message |-> <<"S", "i", "g", "n", "a", "t", "u", "r", "e", " ", "e", "r", "r", "o", "r", ":", " ">> \o message,
     originalError |-> originalError]

ValidationError(message) ==
    [name |-> "ValidationError",
     message |-> <<"V", "a", "l", "i", "d", "a", "t", "i", "o", "n", " ", "e", "r", "r", "o", "r", ":", " ">> \o message,
     originalError |-> NoError]

OwnershipError(message) ==
    [name |-> "OwnershipError",
     message |-> <<"O", "w", "n", "e", "r", "s", "h", "i", "p", " ", "e", "r", "r", "o", "r", ":", " ">> \o message,
     originalError |-> NoError]

RFQNotFoundError(id) ==
    [name |-> "RFQNotFoundError",
     message |-> <<"R", "F", "Q", " ", "n", "o", "t", " ", "f", "o", "u", "n", "d", " ", "w", "i", "t", "h", " ", "i", "d", ":", " ">> \o id,
     originalError |-> NoError]

\* an Error thrown by a collaborator (the store, the wallet)
PlainError(message) == [name |-> "Error", message |-> message, originalError |-> NoError]

(***************************************************************************)
(* utils/validation.ts.  A validator is the message of the ValidationError *)
(* it throws, or Valid when it returns normally.  The arguments have their *)
(* TypeScript types.                                                       *)
(***************************************************************************)
Valid == <<>>

\* the first of the messages, in the order of the checks, that is thrown
FirstThrown(messages) ==
    IF \E i \in 1..Len(messages) : messages[i] # Valid
    THEN messages[CHOOSE i \in 1..Len(messages) :
                    /\ messages[i] # Valid
                    /\ \A j \in 1..(i - 1) : messages[j] = Valid]
    ELSE Valid

\* /^0x[a-fA-F0-9]{40}$/
AddressHexLen == 40

\* !address is the empty string
validateAddress(address, fieldName) ==
    IF address = <<>>
    THEN fieldName \o <<" ", "i", "s", " ", "r", "e", "q", "u", "i", "r", "e", "d", " ", "a", "n", "d", " ", "m", "u", "s", "t", " ", "b", "e", " ", "a", " ", "s", "t", "r", "i", "n", "g">>
    ELSE IF ~(/\ Len(address) = 2 + AddressHexLen
              /\ address[1] = "0"
              /\ address[2] = "x"
              /\ \A i \in 3..Len(address) : address[i] \in HexDigits)
    THEN fieldName \o <<" ", "m", "u", "s", "t", " ", "b", "e", " ", "a", " ", "v", "a", "l", "i", "d", " ", "E", "t", "h", "e", "r", "e", "u", "m", " ", "a", "d", "d", "r", "e", "s", "s">>
    ELSE Valid

\* token.chainId is an integer
validateTokenInfo(token, fieldName) ==
    FirstThrown(<<validateAddress(token.address, fieldName \o <<".", "a", "d", "d", "r", "e", "s", "s">>),
                  IF token.chainId <= 0
                  THEN fieldName \o <<".", "c", "h", "a", "i", "n", "I", "d", " ", "m", "u", "s", "t", " ", "b", "e", " ", "a", " ", "p", "o", "s", "i", "t", "i", "v", "e", " ", "i", "n", "t", "e", "g", "e", "r">>
                  ELSE Valid>>)

\* validateAmount without the comparison with '0'
validateAmountAllowsZero(amount, fieldName) ==
    IF amount = <<>>
    THEN fieldName \o <<" ", "i", "s", " ", "r", "e", "q", "u", "i", "r", "e", "d", " ", "a", "n", "d", " ", "m", "u", "s", "t", " ", "b", "e", " ", "a", " ", "s", "t", "r", "i", "n", "g">>
    ELSE IF ~(\A i \in 1..Len(amount) : amount[i] \in Digits)
    THEN fieldName \o <<" ", "m", "u", "s", "t", " ", "b", "e", " ", "a", " ", "v", "a", "l", "i", "d", " ", "p", "o", "s", "i", "t", "i", "v", "e", " ", "i", "n", "t", "e", "g", "e", "r", " ", "s", "t", "r", "i", "n", "g">>
    ELSE Valid

\* !amount is the empty string; then /^\d+$/ and === '0'
validateAmount(amount, fieldName) ==
    IF amount = <<>>
    THEN fieldName \o <<" ", "i", "s", " ", "r", "e", "q", "u", "i", "r", "e", "d", " ", "a", "n", "d", " ", "m", "u", "s", "t", " ", "b", "e", " ", "a", " ", "s", "t", "r", "i", "n", "g">>
    ELSE IF ~(\A i \in 1..Len(amount) : amount[i] \in Digits)
    THEN fieldName \o <<" ", "m", "u", "s", "t", " ", "b", "e", " ", "a", " ", "v", "a", "l", "i", "d", " ", "p", "o", "s", "i", "t", "i", "v", "e", " ", "i", "n", "t", "e", "g", "e", "r", " ", "s", "t", "r", "i", "n", "g">>
    ELSE IF amount = <<"0">>
    THEN fieldName \o <<" ", "m", "u", "s", "t", " ", "b", "e", " ", "g", "r", "e", "a", "t", "e", "r", " ", "t", "h", "a", "n", " ", "z", "e", "r", "o">>
    ELSE Valid

\* 30 * 24 * 60 * 60
MaxExpirationWindow == 2592000

\* validateExpiration that refuses the last second of the window too
validateExpirationBeforeMax(expiresIn, clock) ==
    IF expiresIn <= 0
    THEN <<"e", "x", "p", "i", "r", "e", "s", "I", "n", " ", "m", "u", "s", "t", " ", "b", "e", " ", "a", " ", "p", "o", "s", "i", "t", "i", "v", "e", " ", "i", "n", "t", "e", "g", "e", "r", " ", "t", "i", "m", "e", "s", "t", "a", "m", "p">>
    ELSE IF expiresIn <= clock
    THEN <<"e", "x", "p", "i", "r", "e", "s", "I", "n", " ", "m", "u", "s", "t", " ", "b", "e", " ", "i", "n", " ", "t", "h", "e", " ", "f", "u", "t", "u", "r", "e">>
    ELSE IF expiresIn >= clock + MaxExpirationWindow
    THEN <<"e", "x", "p", "i", "r", "e", "s", "I", "n", " ", "c", "a", "n", "n", "o", "t", " ", "b", "e", " ", "m", "o", "r", "e", " ", "t", "h", "a", "n", " ", "3", "0", " ", "d", "a", "y", "s", " ", "i", "n", " ", "t", "h", "e", " ", "f", "u", "t", "u", "r", "e">>
    ELSE Valid

\* expiresIn is an integer; clock is Math.floor(Date.now() / 1000)
validateExpiration(expiresIn, clock) ==
    IF expiresIn <= 0
    THEN <<"e", "x", "p", "i", "r", "e", "s", "I", "n", " ", "m", "u", "s", "t", " ", "b", "e", " ", "a", " ", "p", "o", "s", "i", "t", "i", "v", "e", " ", "i", "n", "t", "e", "g", "e", "r", " ", "t", "i", "m", "e", "s", "t", "a", "m", "p">>
    ELSE IF expiresIn <= clock
    THEN <<"e", "x", "p", "i", "r", "e", "s", "I", "n", " ", "m", "u", "s", "t", " ", "b", "e", " ", "i", "n", " ", "t", "h", "e", " ", "f", "u", "t", "u", "r", "e">>
    ELSE IF expiresIn > clock + MaxExpirationWindow
    THEN <<"e", "x", "p", "i", "r", "e", "s", "I", "n", " ", "c", "a", "n", "n", "o", "t", " ", "b", "e", " ", "m", "o", "r", "e", " ", "t", "h", "a", "n", " ", "3", "0", " ", "d", "a", "y", "s", " ", "i", "n", " ", "t", "h", "e", " ", "f", "u", "t", "u", "r", "e">>
    ELSE Valid

\* an optional property is the set of its values: {} when undefined
validateCreateRFQInput(input, clock) ==
    FirstThrown(
        <<validateTokenInfo(input.baseToken, <<"b", "a", "s", "e", "T", "o", "k", "e", "n">>),
          validateTokenInfo(input.quoteToken, <<"q", "u", "o", "t", "e", "T", "o", "k", "e", "n">>),
          validateAmount(input.baseAmount, <<"b", "a", "s", "e", "A", "m", "o", "u", "n", "t">>),
          validateAmount(input.quoteAmount, <<"q", "u", "o", "t", "e", "A", "m", "o", "u", "n", "t">>),
          validateExpiration(input.expiresIn, clock),
          IF input.minFillAmount = {}
          THEN Valid
          ELSE validateAmount(CHOOSE minFillAmount \in input.minFillAmount : TRUE,
                              <<"m", "i", "n", "F", "i", "l", "l", "A", "m", "o", "u", "n", "t">>),
          IF input.counterpartyRestrictions = {}
          THEN Valid
          ELSE LET restrictions == CHOOSE a \in input.counterpartyRestrictions : TRUE IN
               FirstThrown([index \in 1..Len(restrictions) |->
                    validateAddress(restrictions[index],
                                    <<"c", "o", "u", "n", "t", "e", "r", "p", "a", "r", "t", "y", "R", "e", "s", "t", "r", "i", "c", "t", "i", "o", "n", "s", "[">> \o Dec(index - 1) \o <<"]">>)])>>)

\* !id is the empty string
validateRFQId(id) ==
    IF id = <<>>
    THEN <<"R", "F", "Q", " ", "I", "D", " ", "i", "s", " ", "r", "e", "q", "u", "i", "r", "e", "d", " ", "a", "n", "d", " ", "m", "u", "s", "t", " ", "b", "e", " ", "a", " ", "s", "t", "r", "i", "n", "g">>
    ELSE IF Len(trim(id)) = 0
    THEN <<"R", "F", "Q", " ", "I", "D", " ", "c", "a", "n", "n", "o", "t", " ", "b", "e", " ", "e", "m", "p", "t", "y">>
    ELSE Valid

(***************************************************************************)
(* utils/retry.ts.                                                         *)
(***************************************************************************)
DEFAULT_RETRY_CONFIG ==
    [maxRetries |-> 3, initialDelay |-> 1000, maxDelay |-> 10000, backoffMultiplier |-> 2]

Min(a, b) == IF a < b THEN a ELSE b

Max(a, b) == IF a > b THEN a ELSE b

NonRetryableNames == {"ValidationError", "OwnershipError", "SignatureError"}

\* isNonRetryableError without the test for '404'
isNonRetryableErrorWithout404(error) ==
    \/ error.name \in NonRetryableNames
    \/ includes(toLowerCase(error.message), <<"4", "0", "0">>)

\* isNonRetryableError, for error an instance of Error
isNonRetryableError(error) ==
    \/ error.name \in NonRetryableNames
    \/ includes(toLowerCase(error.message), <<"4", "0", "0">>)
    \/ includes(toLowerCase(error.message), <<"4", "0", "4">>)

\* The local variables of withRetry when the loop is entered:
\*   attempt, delay, lastError; and, for the record, the number of
\*   invocations of fn that have settled and the delays sleep was called
\*   with so far.
RetryStart(config) ==
    [attempt |-> 0,
     delay |-> config.initialDelay,
     lastError |-> NoError,
     invoked |-> 0,
     slept |-> <<>>]

\* the loop condition: fn is invoked next
RetryLoops(r, config) == r.attempt <= config.maxRetries

\* the catch block with the last attempt taken one too early
RetryBreaksOneEarly(r, config, error) ==
    \/ r.attempt + 1 >= config.maxRetries
    \/ isNonRetryableError(error)

\* the catch block breaks out of the loop
RetryBreaks(r, config, error) ==
    \/ r.attempt = config.maxRetries
    \/ isNonRetryableError(error)

\* fn() was invoked and threw error, and the catch block broke out
RetryBreak(r, error) ==
    [r EXCEPT !.lastError = error, !.invoked = @ + 1]

\* the catch block up to its await: fn() was invoked and threw error, and
\* sleep(delay) is called
RetrySleep(r, error) ==
    [r EXCEPT !.lastError = error,
              !.invoked = @ + 1,
              !.slept = Append(@, r.delay)]

\* the timer fires and the loop goes round without counting the attempt
RetryWakeSameAttempt(r, config) ==
    [r EXCEPT !.delay = Min(r.delay * config.backoffMultiplier, config.maxDelay)]

\* the timer fires: the catch block ends and the loop goes on to the next
\* attempt
RetryWake(r, config) ==
    [r EXCEPT !.delay = Min(r.delay * config.backoffMultiplier, config.maxDelay),
              !.attempt = @ + 1]

\* fn() was invoked and returned
RetryReturn(r) == [r EXCEPT !.invoked = @ + 1]

\* the error withRetry throws after the loop
RetryExhausted(r, config) ==
    ArkivNetworkError(
        <<"O", "p", "e", "r", "a", "t", "i", "o", "n", " ", "f", "a", "i", "l", "e", "d", " ", "a", "f", "t", "e", "r", " ">> \o Dec(config.maxRetries + 1) \o <<" ", "a", "t", "t", "e", "m", "p", "t", "s">>,
        r.lastError)

(***************************************************************************)
(* RetrySpec: withRetry(fn, config) on its own.  The behaviour of fn is a  *)
(* plan drawn at the start: plan[i] is what the i-th invocation does,      *)
(* return a value or throw an error.  pc names the promise withRetry       *)
(* awaits: "loop", fn() of the current attempt; "sleep", the timer of      *)
(* sleep(delay).                                                           *)
(***************************************************************************)
Returns(v) == [returns |-> TRUE, value |-> v, error |-> NoError]

Throws(e) == [returns |-> FALSE, value |-> 0, error |-> e]

RetryableErrors ==
    {PlainError(<<"c", "o", "n", "n", "e", "c", "t", "i", "o", "n", " ", "r", "e", "s", "e", "t">>),
     ArkivNetworkError(<<"F", "a", "i", "l", "e", "d", " ", "t", "o", " ", "g", "e", "t", " ", "R", "F", "Q">>, PlainError(<<"H", "T", "T", "P", " ", "4", "0", "4", " ", "N", "o", "t", " ", "F", "o", "u", "n", "d">>))}

NonRetryableErrors ==
    {ValidationError(<<"R", "F", "Q", " ", "I", "D", " ", "c", "a", "n", "n", "o", "t", " ", "b", "e", " ", "e", "m", "p", "t", "y">>),
     OwnershipError(<<"C", "a", "n", "n", "o", "t", " ", "u", "p", "d", "a", "t", "e", " ", "a", " ", "n", "o", "n", "-", "o", "p", "e", "n", " ", "R", "F", "Q">>),
     SignatureError(<<"F", "a", "i", "l", "e", "d", " ", "t", "o", " ", "s", "i", "g", "n", " ", "R", "F", "Q", " ", "d", "a", "t", "a">>, NoError),
     PlainError(<<"H", "T", "T", "P", " ", "4", "0", "4", " ", "N", "o", "t", " ", "F", "o", "u", "n", "d">>),
     PlainError(<<"H", "T", "T", "P", " ", "4", "0", "0", " ", "B", "a", "d", " ", "R", "e", "q", "u", "e", "s", "t">>),
     PlainError(<<"t", "i", "m", "e", "o", "u", "t", " ", "a", "f", "t", "e", "r", " ", "1", "4", "0", "0", "m", "s">>)}

Outcomes ==
    {Returns(7), Returns(8)} \cup {Throws(e) : e \in RetryableErrors \cup NonRetryableErrors}

RetryConfigs ==
    {[maxRetries |-> m, initialDelay |-> d.i, maxDelay |-> d.m, backoffMultiplier |-> d.b] :
        m \in 0..MaxRetriesDrawn,
        d \in {[i |-> 1000, m |-> 10000, b |-> 2],
               [i |-> 3000, m |-> 10000, b |-> 3],
               [i |-> 5000, m |-> 2000, b |-> 2]}}

\* a plan: the first `fails` invocations throw retryable errors, `first` and
\* `second` in turn; every later invocation does `then`
Plans ==
    [fails : 0..(MaxRetriesDrawn + 1),
     first : RetryableErrors,
     second : RetryableErrors,
     then : Outcomes]

PlanOutcome(plan, i) ==
    IF i <= plan.fails
    THEN Throws(IF i % 2 = 1 THEN plan.first ELSE plan.second)
    ELSE plan.then

RtIdle == [pc |-> "idle"]

RtStart(config, plan) ==
    [pc |-> "loop", config |-> config, plan |-> plan, r |-> RetryStart(config),
     returned |-> 0, thrown |-> NoError]

\* fn() returns: withRetry returns its value
RtInvokeReturns ==
    /\ rt.pc = "loop"
    /\ RetryLoops(rt.r, rt.config)
    /\ LET o == PlanOutcome(rt.plan, rt.r.invoked + 1) IN
        /\ o.returns
        /\ rt' = [rt EXCEPT !.pc = "returned", !.r = RetryReturn(rt.r), !.returned = o.value]
    /\ UNCHANGED <<entities, signer, now, calls, faults, watchVars, ledger>>

\* fn() throws and the catch block breaks: withRetry throws
RtInvokeBreaks ==
    /\ rt.pc = "loop"
    /\ RetryLoops(rt.r, rt.config)
    /\ LET o == PlanOutcome(rt.plan, rt.r.invoked + 1) IN
        /\ ~o.returns
        /\ RetryBreaks(rt.r, rt.config, o.error)
        /\ rt' = [rt EXCEPT !.pc = "thrown",
                             !.r = RetryBreak(rt.r, o.error),
                             !.thrown = RetryExhausted(RetryBreak(rt.r, o.error), rt.config)]
    /\ UNCHANGED <<entities, signer, now, calls, faults, watchVars, ledger>>

\* fn() throws and the catch block calls sleep(delay): withRetry awaits the
\* timer
RtInvokeSleeps ==
    /\ rt.pc = "loop"
    /\ RetryLoops(rt.r, rt.config)
    /\ LET o == PlanOutcome(rt.plan, rt.r.invoked + 1) IN
        /\ ~o.returns
        /\ ~RetryBreaks(rt.r, rt.config, o.error)
        /\ rt' = [rt EXCEPT !.pc = "sleep", !.r = RetrySleep(rt.r, o.error)]
    /\ UNCHANGED <<entities, signer, now, calls, faults, watchVars, ledger>>

\* the timer fires: delay is multiplied, attempt counted and fn invoked again
RtSleepEnds ==
    /\ rt.pc = "sleep"
    /\ rt' = [rt EXCEPT !.pc = "loop", !.r = RetryWake(rt.r, rt.config)]
    /\ UNCHANGED <<entities, signer, now, calls, faults, watchVars, ledger>>

(***************************************************************************)
(* Values the model draws its inputs from.                                 *)
(***************************************************************************)
AddrAlice == <<"0", "x">> \o [i \in 1..AddressHexLen |-> IF i % 2 = 1 THEN "A" ELSE "b"]

AddrAliceLower == toLowerCase(AddrAlice)

AddrBob == <<"0", "x">> \o [i \in 1..AddressHexLen |-> DigitChar[(i % 10) + 1]]

TokenBase == [address |-> <<"0", "x">> \o Rep("1", AddressHexLen), chainId |-> 1]

TokenQuote == [address |-> <<"0", "x">> \o Rep("2", AddressHexLen), chainId |-> 1]

NoSigner == [name |-> "none"]

\* wallets: two report the same account, one of them in lower case
Signers ==
    {[name |-> "alice", address |-> AddrAlice],
     [name |-> "aliceLower", address |-> AddrAliceLower],
     [name |-> "bob", address |-> AddrBob]}

\* what Math.random().toString(36).substring(2, 15) may give
Randoms == {<<"k", "3">>, <<"z", "9", "q">>}

\* createRFQ inputs; clock is the time of the call
ValidInput(clock) ==
    [baseToken |-> TokenBase,
     quoteToken |-> TokenQuote,
     baseAmount |-> <<"1", "0", "0", "0", "0", "0", "0", "0", "0", "0", "0", "0", "0", "0", "0", "0", "0", "0", "0">>,
     quoteAmount |-> <<"2", "0", "0", "0", "0", "0", "0", "0", "0", "0">>,
     expiresIn |-> clock + 3600,
     minFillAmount |-> {},
     counterpartyRestrictions |-> {}]

ValidInputs(clock) ==
    {ValidInput(clock),
     [ValidInput(clock) EXCEPT !.expiresIn = clock + MaxExpirationWindow,
                               !.minFillAmount = {<<"5", "0", "0">>},
                               !.counterpartyRestrictions = {<<AddrBob>>}]}

InvalidInputs(clock) ==
    {[ValidInput(clock) EXCEPT !.baseToken.address = <<"i", "n", "v", "a", "l", "i", "d", "-", "a", "d", "d", "r", "e", "s", "s">>],
     [ValidInput(clock) EXCEPT !.quoteToken.chainId = 0],
     [ValidInput(clock) EXCEPT !.baseAmount = <<"0">>],
     [ValidInput(clock) EXCEPT !.quoteAmount = <<"1", ".", "5">>],
     [ValidInput(clock) EXCEPT !.expiresIn = clock],
     [ValidInput(clock) EXCEPT !.expiresIn = clock + MaxExpirationWindow + 1],
     [ValidInput(clock) EXCEPT !.minFillAmount = {<<"-", "1">>}],
     [ValidInput(clock) EXCEPT !.counterpartyRestrictions = {<<AddrBob, <<"0", "x", "1", "2">>>>}]}

CreateInputs(clock) == ValidInputs(clock) \cup InvalidInputs(clock)

\* UpdateRFQInput: the properties that are given
UpdateInputs ==
    {[status |-> "FILLED"],
     [status |-> "CANCELLED"],
     [baseAmount |-> <<"1", "5", "0", "0", "0", "0", "0", "0", "0", "0", "0", "0", "0", "0", "0", "0", "0", "0", "0">>],
     [quoteAmount |-> <<"2", "5">>, expiresIn |-> StartTime + 7200]}

\* an id no createRFQ generates
MissingId == <<"0", "x", "n", "o", "n", "e", "-", "0", "-", "x">>

\* ids that validateRFQId refuses
InvalidIds == {<<>>, <<" ", " ">>, <<"\t", "", "\n">>}

\* errors the store's calls throw
StoreErrors == {PlainError(<<"c", "o", "n", "n", "e", "c", "t", "i", "o", "n", " ", "r", "e", "s", "e", "t">>), PlainError(<<"H", "T", "T", "P", " ", "4", "0", "4", " ", "N", "o", "t", " ", "F", "o", "u", "n", "d">>)}

\* the error a wallet throws
WalletError == PlainError(<<"u", "s", "e", "r", " ", "r", "e", "j", "e", "c", "t", "e", "d">>)

(***************************************************************************)
(* The store (tests/mocks/ArkivClientMock.ts): a map from entity key to    *)
(* entity.  Every call of the client is for the entity type 'RFQ'.         *)
(***************************************************************************)
\* a store that refuses to write over an entity it holds
StoreWriteIfAbsent(store, options) ==
    [k \in DOMAIN store \cup {options.entityKey} |->
        IF k \in DOMAIN store
        THEN store[k]
        ELSE [entityKey |-> options.entityKey, data |-> options.data]]

StoreWrite(store, options) ==
    [k \in DOMAIN store \cup {options.entityKey} |->
        IF k = options.entityKey
        THEN [entityKey |-> options.entityKey, data |-> options.data]
        ELSE store[k]]

StoreGet(store, entityKey) ==
    IF entityKey \in DOMAIN store THEN store[entityKey] ELSE Null

StoreDelete(store, entityKey) ==
    [k \in DOMAIN store \ {entityKey} |-> store[k]]

getEntityCount(store) == Cardinality(DOMAIN store)

(***************************************************************************)
(* client/ArkivRFQClient.ts.                                               *)
(***************************************************************************)
generateRFQId(creator, timestamp, random) ==
    toLowerCase(creator) \o <<"-">> \o Dec(timestamp) \o <<"-">> \o random

\* entityToRFQ that gives no fills
entityToRFQWithoutFills(entity) ==
    [k \in DOMAIN entity.data |-> IF k = "fills" THEN <<>> ELSE entity.data[k]]

entityToRFQ(entity) ==
    [id |-> entity.data.id,
     creator |-> entity.data.creator,
     baseToken |-> entity.data.baseToken,
     quoteToken |-> entity.data.quoteToken,
     baseAmount |-> entity.data.baseAmount,
     quoteAmount |-> entity.data.quoteAmount,
     expiresIn |-> entity.data.expiresIn,
     status |-> entity.data.status,
     createdAt |-> entity.data.createdAt,
     updatedAt |-> entity.data.updatedAt,
     filledAmount |-> entity.data.filledAmount,
     fills |-> entity.data.fills,
     minFillAmount |-> entity.data.minFillAmount,
     counterpartyRestrictions |-> entity.data.counterpartyRestrictions]

\* rfqData with the creator in the lower case the id has it in
CreateDataLowerCreator(input, id, creator, clock) ==
    [id |-> id,
     creator |-> toLowerCase(creator),
     baseToken |-> input.baseToken,
     quoteToken |-> input.quoteToken,
     baseAmount |-> input.baseAmount,
     quoteAmount |-> input.quoteAmount,
     expiresIn |-> input.expiresIn,
     status |-> "OPEN",
     createdAt |-> clock,
     updatedAt |-> clock,
     filledAmount |-> IF input.minFillAmount \in {{}, {<<>>}}
                      THEN <<"0">>
                      ELSE CHOOSE a \in input.minFillAmount : TRUE,
     fills |-> <<>>,
     minFillAmount |-> input.minFillAmount,
     counterpartyRestrictions |-> input.counterpartyRestrictions]

\* the rfqData object createRFQ assembles
CreateData(input, id, creator, clock) ==
    [id |-> id,
     creator |-> creator,
     baseToken |-> input.baseToken,
     quoteToken |-> input.quoteToken,
     baseAmount |-> input.baseAmount,
     quoteAmount |-> input.quoteAmount,
     expiresIn |-> input.expiresIn,
     status |-> "OPEN",
     createdAt |-> clock,
     updatedAt |-> clock,
     filledAmount |-> IF input.minFillAmount \in {{}, {<<>>}}
                      THEN <<"0">>
                      ELSE CHOOSE a \in input.minFillAmount : TRUE,
     fills |-> <<>>,
     minFillAmount |-> input.minFillAmount,
     counterpartyRestrictions |-> input.counterpartyRestrictions]

\* the merge without updatedAt: now
UpdatedDataKeepsTime(existingRFQ, updates, clock) ==
    [k \in DOMAIN existingRFQ \cup DOMAIN updates |->
        IF k \in DOMAIN updates THEN updates[k] ELSE existingRFQ[k]]

\* { ...existingRFQ, ...updates, updatedAt: now }
\* an update that stamps createdAt as well
UpdatedDataRestamped(existingRFQ, updates, clock) ==
    [k \in DOMAIN existingRFQ \cup DOMAIN updates \cup {"updatedAt"} |->
        IF k \in {"updatedAt", "createdAt"} THEN clock
        ELSE IF k \in DOMAIN updates THEN updates[k]
        ELSE existingRFQ[k]]

UpdatedData(existingRFQ, updates, clock) ==
    [k \in DOMAIN existingRFQ \cup DOMAIN updates \cup {"updatedAt"} |->
        IF k = "updatedAt" THEN clock
        ELSE IF k \in DOMAIN updates THEN updates[k]
        ELSE existingRFQ[k]]

\* the comparison without toLowerCase()
IsCreatorExact(existingRFQ, signerAddress) ==
    existingRFQ.creator = signerAddress

\* existingRFQ.creator.toLowerCase() !== signerAddress.toLowerCase() is false
IsCreator(existingRFQ, signerAddress) ==
    toLowerCase(existingRFQ.creator) = toLowerCase(signerAddress)

\* the status check refusing cancelled RFQs only
IsOpenOrFilled(existingRFQ) == existingRFQ.status # "CANCELLED"

IsOpen(existingRFQ) == existingRFQ.status = "OPEN"

\* JSON.stringify(data): the properties whose value is not undefined
OptionalKeys == {"minFillAmount", "counterpartyRestrictions"}

Stringify(data) ==
    [k \in {x \in DOMAIN data : x \in OptionalKeys => data[x] # {}} |-> data[k]]

\* signer.signMessage(message)
signMessage(by, message) == [signedBy |-> by.name, message |-> message]

(***************************************************************************)
(* The change feed: watchRFQs (client/ArkivRFQClient.ts) on watchEntities  *)
(* and triggerWatchers (tests/mocks/ArkivClientMock.ts).                   *)
(***************************************************************************)
\* the handlers WatchRFQsOptions may define
Handlers == {"onCreated", "onUpdated", "onCancelled", "onFilled"}

DEFAULT_POLLING_INTERVAL == 2000

\* buildArkivFilters(undefined): {}
NoFilters == <<>>

\* one call of a handler of the options of the watchRFQs call `watch`
HandlerCall(options, handler, rfq) ==
    [watch |-> options.watch, handler |-> handler, rfq |-> rfq]

\* the onCreated wrapper without the test of the status
OnCreatedWrapperAnyStatus(options, entity) ==
    <<HandlerCall(options, "onCreated", entityToRFQ(entity))>>

\* the function watchRFQs passes as onCreated; options are watchRFQs' options
OnCreatedWrapper(options, entity) ==
    LET rfq == entityToRFQ(entity) IN
    IF rfq.status = "OPEN"
    THEN <<HandlerCall(options, "onCreated", rfq)>>
    ELSE <<>>

\* the function watchRFQs passes as onUpdated
\* the wrapper calling onUpdated after onCancelled or onFilled as well
OnUpdatedWrapperFallsThrough(options, entity) ==
    LET rfq == entityToRFQ(entity) IN
    (IF rfq.status = "CANCELLED" /\ "onCancelled" \in options.handlers
     THEN <<HandlerCall(options, "onCancelled", rfq)>>
     ELSE IF rfq.status = "FILLED" /\ "onFilled" \in options.handlers
     THEN <<HandlerCall(options, "onFilled", rfq)>>
     ELSE <<>>)
    \o (IF "onUpdated" \in options.handlers
        THEN <<HandlerCall(options, "onUpdated", rfq)>>
        ELSE <<>>)

OnUpdatedWrapper(options, entity) ==
    LET rfq == entityToRFQ(entity) IN
    IF rfq.status = "CANCELLED" /\ "onCancelled" \in options.handlers
    THEN <<HandlerCall(options, "onCancelled", rfq)>>
    ELSE IF rfq.status = "FILLED" /\ "onFilled" \in options.handlers
    THEN <<HandlerCall(options, "onFilled", rfq)>>
    ELSE IF "onUpdated" \in options.handlers
    THEN <<HandlerCall(options, "onUpdated", rfq)>>
    ELSE <<>>

\* getNestedValue(obj, path); the path 'a.b' is <<"a", "b">>
RECURSIVE getNestedValue(_, _)
getNestedValue(obj, path) ==
    IF path = <<>>
    THEN obj
    ELSE IF Head(path) \in DOMAIN obj
    THEN getNestedValue(obj[Head(path)], Tail(path))
    ELSE Undefined

\* the values of a filters object: a value compared directly, an object of
\* the operators $gte and $lte, and the array of conditions of '$or'
Eq(value) == [op |-> "eq", value |-> value]

Range(gte, lte) == [op |-> "range", gte |-> gte, lte |-> lte]

AnyOf(conditions) == [op |-> "$or", conditions |-> conditions]

\* matchesFilters that looks only at the keys without a dot
matchesFiltersFirstKeyOnly(entity, filters) ==
    \A key \in DOMAIN filters :
        (Len(key) = 1 /\ filters[key].op = "eq")
            => getNestedValue(entity.data, key) = filters[key].value

\* matchesFilters; filters maps each key, a path, to its value
RECURSIVE matchesFilters(_, _)
matchesFilters(entity, filters) ==
    \A key \in DOMAIN filters :
        LET value == filters[key] IN
        CASE value.op = "$or" ->
                \E i \in 1..Len(value.conditions) :
                    matchesFilters(entity, value.conditions[i])
          [] value.op = "range" ->
                /\ ~(getNestedValue(entity.data, key) < value.gte)
                /\ ~(getNestedValue(entity.data, key) > value.lte)
          [] OTHER ->
                getNestedValue(entity.data, key) = value.value

\* buildArkivFilters(filters); priceRange adds nothing
buildArkivFilters(filters) ==
    IF filters = {}
    THEN NoFilters
    ELSE LET given == CHOOSE f \in filters : TRUE
             tokenPair == IF given.tokenPair = {}
                          THEN {}
                          ELSE {<<"baseToken", "address">>, <<"baseToken", "chainId">>,
                                <<"quoteToken", "address">>, <<"quoteToken", "chainId">>}
             chain == IF given.chain \in {{}, {0}} THEN {} ELSE {<<"$or">>}
             creator == IF given.creator \in {{}, {<<>>}} THEN {} ELSE {<<"creator">>}
             expiration == IF given.expiration = {} THEN {} ELSE {<<"expiresIn">>}
             status == IF given.status = {} THEN {} ELSE {<<"status">>}
         IN  [key \in tokenPair \cup chain \cup creator \cup expiration \cup status |->
                CASE key = <<"baseToken", "address">> ->
                        Eq((CHOOSE t \in given.tokenPair : TRUE).base.address)
                  [] key = <<"baseToken", "chainId">> ->
                        Eq((CHOOSE t \in given.tokenPair : TRUE).base.chainId)
                  [] key = <<"quoteToken", "address">> ->
                        Eq((CHOOSE t \in given.tokenPair : TRUE).quote.address)
                  [] key = <<"quoteToken", "chainId">> ->
                        Eq((CHOOSE t \in given.tokenPair : TRUE).quote.chainId)
                  [] key = <<"$or">> ->
                        AnyOf(<<[k \in {<<"baseToken", "chainId">>} |-> Eq(CHOOSE n \in given.chain : TRUE)],
                                [k \in {<<"quoteToken", "chainId">>} |-> Eq(CHOOSE n \in given.chain : TRUE)]>>)
                  [] key = <<"creator">> ->
                        Eq(toLowerCase(CHOOSE a \in given.creator : TRUE))
                  [] key = <<"expiresIn">> ->
                        Range((CHOOSE e \in given.expiration : TRUE).minTime,
                              (CHOOSE e \in given.expiration : TRUE).maxTime)
                  [] OTHER ->
                        Eq(CHOOSE st \in given.status : TRUE)]

\* the options watchRFQs passes to watchEntities; an optional property is the
\* set of its values, and a wrapper is known by the options it closes over.
\* options are watchRFQs' options: the handlers defined, filters and
\* pollingInterval
WatchEntitiesOptions(options) ==
    [entityType |-> "RFQ",
     pollingInterval |-> IF options.pollingInterval \in {{}, {0}}
                         THEN DEFAULT_POLLING_INTERVAL
                         ELSE CHOOSE n \in options.pollingInterval : TRUE,
     filters |-> buildArkivFilters(options.filters),
     onCreated |-> IF "onCreated" \in options.handlers THEN {options} ELSE {},
     onUpdated |-> IF "onUpdated" \in options.handlers THEN {options} ELSE {}]

\* the body of triggerWatchers' loop for one watcher: the handlers called
TriggerWatcher(watcher, entityType, entity, eventType) ==
    IF watcher.options.entityType = entityType
            /\ matchesFilters(entity, watcher.options.filters)
    THEN IF eventType = "created" /\ watcher.options.onCreated # {}
         THEN OnCreatedWrapper(CHOOSE o \in watcher.options.onCreated : TRUE, entity)
         ELSE IF eventType = "updated" /\ watcher.options.onUpdated # {}
         THEN OnUpdatedWrapper(CHOOSE o \in watcher.options.onUpdated : TRUE, entity)
         ELSE <<>>
    ELSE <<>>

\* triggerWatchers: the handlers called, in the order of the calls
RECURSIVE triggerWatchers(_, _, _, _)
triggerWatchers(ws, entityType, entity, eventType) ==
    IF ws = <<>>
    THEN <<>>
    ELSE TriggerWatcher(Head(ws), entityType, entity, eventType)
            \o triggerWatchers(Tail(ws), entityType, entity, eventType)

\* the record of one triggerWatchers call, kept when there are watchers
Notified(log, ws, entityType, entity, eventType) ==
    IF ws = <<>>
    THEN log
    ELSE Append(log, [eventType |-> eventType,
                      entity |-> entity,
                      called |-> triggerWatchers(ws, entityType, entity, eventType)])

\* the mock's unsubscribe with the index !== -1 test left out: splice(-1, 1)
\* removes the last watcher
SpliceWatcherUnchecked(ws, watch) ==
    IF \E i \in 1..Len(ws) : ws[i].watch = watch
    THEN LET index == CHOOSE i \in 1..Len(ws) :
                        /\ ws[i].watch = watch
                        /\ \A j \in 1..(i - 1) : ws[j].watch # watch
         IN  [i \in 1..(Len(ws) - 1) |-> IF i < index THEN ws[i] ELSE ws[i + 1]]
    ELSE [i \in 1..(Len(ws) - 1) |-> ws[i]]

\* unsubscribe: findIndex of the watcher with these options, and splice
SpliceWatcher(ws, watch) ==
    IF \E i \in 1..Len(ws) : ws[i].watch = watch
    THEN LET index == CHOOSE i \in 1..Len(ws) :
                        /\ ws[i].watch = watch
                        /\ \A j \in 1..(i - 1) : ws[j].watch # watch
         IN  [i \in 1..(Len(ws) - 1) |-> IF i < index THEN ws[i] ELSE ws[i + 1]]
    ELSE ws

\* watchRFQs' options: the handlers defined, filters and pollingInterval,
\* and the number of the call, which stands for the identity of the object
WatchRFQsOptions(watch, given) ==
    [watch |-> watch,
     handlers |-> given.handlers,
     filters |-> given.filters,
     pollingInterval |-> given.pollingInterval]

\* watchRFQs(options): watchEntities pushes the watcher.  The watcher is kept
\* with the number of the call and the handlers the call was given.
watchRFQs(optionsDrawn) ==
    /\ Len(unsubscribed) < MaxWatchers
    /\ \E given \in optionsDrawn :
        LET options == WatchRFQsOptions(Len(unsubscribed) + 1, given) IN
        watchers' = Append(watchers,
                           [watch |-> options.watch,
                            handlers |-> options.handlers,
                            options |-> WatchEntitiesOptions(options)])
    /\ unsubscribed' = Append(unsubscribed, 0)
    /\ UNCHANGED <<entities, signer, now, calls, faults, rt, feed, ledger>>

\* the function a watchRFQs call returned is called
unsubscribe(watch) ==
    /\ watch \in DOMAIN unsubscribed
    /\ unsubscribed[watch] < MaxUnsubscribes
    /\ watchers' = SpliceWatcher(watchers, watch)
    /\ unsubscribed' = [unsubscribed EXCEPT ![watch] = @ + 1]
    /\ UNCHANGED <<entities, signer, now, calls, faults, rt, feed, ledger>>

\* the number of 'updated' notifications delivered
Simulated == Cardinality({i \in 1..Len(feed) : feed[i].eventType = "updated"})

\* simulateEntityUpdate(entity, 'RFQ'), for an entity the store holds
simulateEntityUpdate(stored) ==
    /\ watchers # <<>>
    /\ Simulated < MaxSimulated
    /\ \E entity \in stored :
        feed' = Notified(feed, watchers, "RFQ", entity, "updated")
    /\ UNCHANGED <<entities, signer, now, calls, faults, rt, watchers, unsubscribed, ledger>>

\* ArkivClientMock.clear(): the entities and the watchers are dropped
clear ==
    /\ entities' = <<>>
    /\ watchers' = <<>>
    /\ UNCHANGED <<signer, now, calls, faults, rt, feed, unsubscribed, ledger>>

(***************************************************************************)
(* Queries.  An optional argument or property is the set of its values.    *)
(***************************************************************************)
DEFAULT_PAGE_LIMIT == 50

\* buildArkivSort(sort)
buildArkivSort(sort) ==
    IF sort = {}
    THEN [field |-> <<"createdAt">>, order |-> "desc"]
    ELSE LET given == CHOOSE o \in sort : TRUE IN
         [field |-> IF given.sortBy = "expiration" THEN <<"expiresIn">> ELSE <<"createdAt">>,
          order |-> IF given.ascending = {TRUE} THEN "asc" ELSE "desc"]

\* the options queryRFQs passes to queryEntities
QueryOptions(filters, sort, pagination) ==
    [entityType |-> "RFQ",
     filters |-> buildArkivFilters(filters),
     sort |-> buildArkivSort(sort),
     limit |-> IF pagination = {} \/ (CHOOSE g \in pagination : TRUE).limit \in {{}, {0}}
               THEN DEFAULT_PAGE_LIMIT
               ELSE CHOOSE n \in (CHOOSE g \in pagination : TRUE).limit : TRUE]

\* queryEntities: the stored entities that match the filters
Matching(store, filters) ==
    {store[k] : k \in {key \in DOMAIN store : matchesFilters(store[key], filters)}}

\* entities.sort(...): the comparator puts a after b when a's value is the
\* greater ('asc'; the other way round for 'desc'), and says the same of
\* equal values whichever comes first, so that the order of entities with
\* equal values is the engine's choice
RECURSIVE Sorted(_, _)
Sorted(matching, sort) ==
    IF matching = {}
    THEN {<<>>}
    ELSE UNION {{<<first>> \o rest : rest \in Sorted(matching \ {first}, sort)} :
                    first \in {e \in matching : \A other \in matching :
                        IF sort.order = "asc"
                        THEN ~(getNestedValue(e.data, sort.field) > getNestedValue(other.data, sort.field))
                        ELSE ~(getNestedValue(e.data, sort.field) < getNestedValue(other.data, sort.field))}}

\* options.limit || 50 in queryEntities
MockDefaultLimit == 50

\* queryEntities' response for the sorted entities, options.limit being
\* given: the limit is options.limit || 50; entities.slice(0, limit) keeps
\* the first limit entities, and all but the last -limit of them when the
\* limit is negative; hasMore is entities.length > limit
QueryResponse(entities_, optionsLimit) ==
    LET limit == IF optionsLimit = 0 THEN MockDefaultLimit ELSE optionsLimit
        end == IF limit < 0
               THEN Max(Len(entities_) + limit, 0)
               ELSE Min(limit, Len(entities_))
    IN  [entities |-> SubSeq(entities_, 1, end),
         total |-> Len(entities_),
         nextCursor |-> IF Len(entities_) > limit THEN {"mock-cursor"} ELSE {}]

\* the result with hasMore taken from the number of RFQs returned
QueryResultFullPage(response, limit) ==
    [rfqs |-> [i \in 1..Len(response.entities) |-> entityToRFQ(response.entities[i])],
     total |-> response.total,
     hasMore |-> Len(response.entities) >= limit,
     nextCursor |-> response.nextCursor]

\* the object queryRFQs returns
QueryResult(response, limit) ==
    [rfqs |-> [i \in 1..Len(response.entities) |-> entityToRFQ(response.entities[i])],
     total |-> response.total,
     hasMore |-> response.nextCursor \notin {{}, {""}},
     nextCursor |-> response.nextCursor]

\* a QueryFilters object without properties
NoQueryFilters ==
    [tokenPair |-> {}, chain |-> {}, priceRange |-> {}, creator |-> {}, expiration |-> {}, status |-> {}]

(***************************************************************************)
(* Client calls.  A call runs from one await to the next in one step; the  *)
(* steps of concurrent calls interleave.  pc names the promise the call    *)
(* awaits:                                                                 *)
(*   getEntity, writeEntity, deleteEntity, queryEntities : the store call  *)
(*       of the current attempt of withRetry;                              *)
(*   sleep : the timer of withRetry's backoff;                             *)
(*   getAddress, signMessage : the wallet.                                 *)
(* The store's methods are async functions without an await: a store call  *)
(* reads or changes the store when it is invoked, in the step that ends    *)
(* with its await, and its promise settles in a later step.                *)
(***************************************************************************)
CallIds == {1, 2}

Pending == [state |-> "pending", value |-> Null, error |-> NoError]

Returned(v) == [state |-> "returned", value |-> v, error |-> NoError]

Threw(e) == [state |-> "threw", value |-> Null, error |-> e]

\* filterByTokenPair: validateAddress(baseAddress, 'baseAddress') and
\* validateAddress(quoteAddress, 'quoteAddress') throw for an address that
\* is not one; otherwise the filters are returned
filterByTokenPair(baseAddress, baseChainId, quoteAddress, quoteChainId) ==
    LET thrown == FirstThrown(<<validateAddress(baseAddress, <<"b", "a", "s", "e", "A", "d", "d", "r", "e", "s", "s">>),
                                validateAddress(quoteAddress, <<"q", "u", "o", "t", "e", "A", "d", "d", "r", "e", "s", "s">>)>>)
    IN  IF thrown # Valid
        THEN Threw(ValidationError(thrown))
        ELSE Returned([NoQueryFilters EXCEPT !.tokenPair =
                {[base |-> [address |-> baseAddress, chainId |-> baseChainId],
                  quote |-> [address |-> quoteAddress, chainId |-> quoteChainId]]}])

\* filterByCreator: validateAddress(address, 'creator') throws for an
\* address that is not one; otherwise the filters are returned
filterByCreator(address) ==
    IF validateAddress(address, <<"c", "r", "e", "a", "t", "o", "r">>) # Valid
    THEN Threw(ValidationError(validateAddress(address, <<"c", "r", "e", "a", "t", "o", "r">>)))
    ELSE Returned([NoQueryFilters EXCEPT !.creator = {address}])

NoStoreCalls ==
    [getEntity |-> 0, writeEntity |-> 0, deleteEntity |-> 0, queryEntities |-> 0,
     watchEntities |-> 0]

IdleCall ==
    [op |-> "none",
     pc |-> "idle",
     id |-> Undefined,            \* the id argument; createRFQ: the generated id
     input |-> Null,              \* createRFQ's input, updateRFQ's updates
     r |-> RetryStart(DEFAULT_RETRY_CONFIG),  \* withRetry's locals
     existingRFQ |-> Null,
     using |-> NoSigner,          \* the signer whose promise is awaited
     signerAddress |-> Undefined, \* what getSignerAddress returned
     data |-> Null,               \* the data object to write
     signature |-> Null,
     outcome |-> Pending,
     startedAt |-> 0,             \* the clock when the call was made
     invoked |-> NoStoreCalls,    \* store calls of each operation that have settled
     commits |-> 0,               \* writeEntity/deleteEntity calls that took effect
     response |-> Null,           \* what queryEntities returned
     fn |-> "none",               \* the store call withRetry's fn makes
     awaited |-> Pending]         \* what the store call in flight settles with

Finish(call, outcome) ==
    [call EXCEPT !.pc = "done", !.outcome = outcome, !.awaited = Pending]

MsgNotCreatorUpdate == <<"O", "n", "l", "y", " ", "t", "h", "e", " ", "R", "F", "Q", " ", "c", "r", "e", "a", "t", "o", "r", " ", "c", "a", "n", " ", "u", "p", "d", "a", "t", "e", " ", "t", "h", "i", "s", " ", "R", "F", "Q">>

MsgNotCreatorDelete == <<"O", "n", "l", "y", " ", "t", "h", "e", " ", "R", "F", "Q", " ", "c", "r", "e", "a", "t", "o", "r", " ", "c", "a", "n", " ", "d", "e", "l", "e", "t", "e", " ", "t", "h", "i", "s", " ", "R", "F", "Q">>

MsgNotOpen == <<"C", "a", "n", "n", "o", "t", " ", "u", "p", "d", "a", "t", "e", " ", "a", " ", "n", "o", "n", "-", "o", "p", "e", "n", " ", "R", "F", "Q">>

MsgGetAddressFailed == <<"F", "a", "i", "l", "e", "d", " ", "t", "o", " ", "g", "e", "t", " ", "s", "i", "g", "n", "e", "r", " ", "a", "d", "d", "r", "e", "s", "s">>

MsgSignFailed == <<"F", "a", "i", "l", "e", "d", " ", "t", "o", " ", "s", "i", "g", "n", " ", "R", "F", "Q", " ", "d", "a", "t", "a">>

MsgNoSigner == <<"N", "o", " ", "s", "i", "g", "n", "e", "r", " ", "c", "o", "n", "f", "i", "g", "u", "r", "e", "d", ".", " ", "C", "a", "l", "l", " ", "s", "e", "t", "S", "i", "g", "n", "e", "r", "(", ")", " ", "f", "i", "r", "s", "t", ".">>

\* getSignerAddress up to its await: the call now awaits signer.getAddress()
GetSignerAddress(call, current) ==
    IF current = NoSigner
    THEN Finish(call, Threw(SignatureError(MsgNoSigner, NoError)))
    ELSE [call EXCEPT !.pc = "getAddress", !.using = current]

\* signRFQData up to its await: the call now awaits signer.signMessage()
SignRFQData(call, current, data) ==
    IF current = NoSigner
    THEN Finish([call EXCEPT !.data = data], Threw(SignatureError(MsgNoSigner, NoError)))
    ELSE [call EXCEPT !.pc = "signMessage", !.using = current, !.data = data]

\* withRetry(fn) is entered and fn is invoked for the first time: the call
\* comes to await storeCall
EnterRetry(call, storeCall) ==
    [call EXCEPT !.pc = storeCall,
                 !.fn = storeCall,
                 !.r = RetryStart(DEFAULT_RETRY_CONFIG)]

StoreCalls == {"getEntity", "writeEntity", "deleteEntity", "queryEntities"}

WriteOptions(call) ==
    [entityKey |-> call.id, data |-> call.data, signature |-> call.signature]

\* what the store call that call comes to await may return, on this store
StoreResults(call, store) ==
    CASE call.pc = "getEntity" -> {StoreGet(store, call.id)}
      [] call.pc = "writeEntity" -> {StoreWrite(store, WriteOptions(call))[call.id]}
      [] call.pc = "deleteEntity" -> {Null}
      [] OTHER ->
            LET options == QueryOptions(call.input.filters, call.input.sort, call.input.pagination) IN
            {QueryResponse(sorted, options.limit) :
                sorted \in Sorted(Matching(store, options.filters), options.sort)}

\* the store after that store call
StoreAfter(call, store) ==
    CASE call.pc = "writeEntity" -> StoreWrite(store, WriteOptions(call))
      [] call.pc = "deleteEntity" -> StoreDelete(store, call.id)
      [] OTHER -> store

\* A step of call c ends with the call as next.  When next awaits a store
\* call, the call is invoked in this step: the store does what the call
\* asks, writeEntity notifying the watchers, and returns a promise that is
\* fulfilled later; or it refuses and returns a promise that is rejected
\* later, the store left as it was.
Invoke(c, next) ==
    IF next.pc \in StoreCalls
    THEN \E settled \in {Returned(v) : v \in StoreResults(next, entities)}
                            \cup {Threw(e) : e \in IF faults < MaxFaults THEN StoreErrors ELSE {}} :
            /\ calls' = [calls EXCEPT ![c] =
                    [next EXCEPT !.awaited = settled,
                                 !.commits = IF settled.state = "returned"
                                                /\ next.pc \in {"writeEntity", "deleteEntity"}
                                             THEN @ + 1
                                             ELSE @]]
            /\ entities' = IF settled.state = "returned"
                            THEN StoreAfter(next, entities)
                            ELSE entities
            /\ feed' = IF settled.state = "returned" /\ next.pc = "writeEntity"
                        THEN Notified(feed, watchers, "RFQ", settled.value, "created")
                        ELSE feed
            /\ faults' = IF settled.state = "threw" THEN faults + 1 ELSE faults
    ELSE /\ calls' = [calls EXCEPT ![c] = next]
         /\ UNCHANGED <<entities, feed, faults>>

\* each slot runs one call; a call takes the first free slot (the slots are
\* interchangeable)
CanStart(c) ==
    /\ calls[c].pc = "idle"
    /\ \A other \in CallIds : other < c => calls[other].pc # "idle"

\* createRFQ(input) up to the await of getSignerAddress
CreateRFQStart(call, input, current, clock) ==
    IF validateCreateRFQInput(input, clock) # Valid
    THEN Finish(call, Threw(ValidationError(validateCreateRFQInput(input, clock))))
    ELSE GetSignerAddress(call, current)

createRFQ(c, inputs) ==
    /\ CanStart(c)
    /\ \E input \in inputs :
        calls' = [calls EXCEPT ![c] =
            CreateRFQStart([IdleCall EXCEPT !.op = "createRFQ", !.startedAt = now, !.input = input],
                           input, signer, now)]
    /\ UNCHANGED <<entities, signer, now, faults, rt, watchVars, ledger>>

\* getRFQ(id) up to the await of the first getEntity, which it invokes
GetRFQStart(call, id) ==
    IF validateRFQId(id) # Valid
    THEN Finish(call, Threw(ValidationError(validateRFQId(id))))
    ELSE EnterRetry(call, "getEntity")

\* the ids of the stored RFQs
StoredIds == DOMAIN entities

IdArguments == StoredIds \cup {MissingId} \cup InvalidIds

\* updateRFQ(id, updates), up to the await of getRFQ's first getEntity
updateRFQ(c, ids, inputs) ==
    /\ CanStart(c)
    /\ \E id \in ids, updates \in inputs :
        Invoke(c, GetRFQStart([IdleCall EXCEPT !.op = "updateRFQ", !.startedAt = now, !.id = id, !.input = updates], id))
    /\ UNCHANGED <<signer, now, rt, watchers, unsubscribed, ledger>>

\* cancelRFQ(id): updateRFQ(id, { status: 'CANCELLED' })
CancelUpdates == [status |-> "CANCELLED"]

cancelRFQ(c, ids) ==
    /\ CanStart(c)
    /\ \E id \in ids :
        Invoke(c, GetRFQStart([IdleCall EXCEPT !.op = "cancelRFQ", !.startedAt = now, !.id = id, !.input = CancelUpdates], id))
    /\ UNCHANGED <<signer, now, rt, watchers, unsubscribed, ledger>>

deleteRFQ(c, ids) ==
    /\ CanStart(c)
    /\ \E id \in ids :
        Invoke(c, GetRFQStart([IdleCall EXCEPT !.op = "deleteRFQ", !.startedAt = now, !.id = id], id))
    /\ UNCHANGED <<signer, now, rt, watchers, unsubscribed, ledger>>

getRFQ(c, ids) ==
    /\ CanStart(c)
    /\ \E id \in ids :
        Invoke(c, GetRFQStart([IdleCall EXCEPT !.op = "getRFQ", !.startedAt = now, !.id = id], id))
    /\ UNCHANGED <<signer, now, rt, watchers, unsubscribed, ledger>>

setSigner(s) ==
    /\ signer # s
    /\ signer' = s
    /\ UNCHANGED <<entities, now, calls, faults, rt, watchVars, ledger>>

\* a second passes
Tick ==
    /\ now < StartTime + MaxTicks
    /\ now' = now + 1
    /\ UNCHANGED <<entities, signer, calls, faults, rt, watchVars, ledger>>

(***************************************************************************)
(* The store calls, each inside withRetry(async () => { try ... catch }).  *)
(***************************************************************************)
FailureMessage(op) ==
    CASE op = "createRFQ" -> <<"F", "a", "i", "l", "e", "d", " ", "t", "o", " ", "c", "r", "e", "a", "t", "e", " ", "R", "F", "Q">>
      [] op \in {"updateRFQ", "cancelRFQ"} -> <<"F", "a", "i", "l", "e", "d", " ", "t", "o", " ", "u", "p", "d", "a", "t", "e", " ", "R", "F", "Q">>
      [] op = "deleteRFQ" -> <<"F", "a", "i", "l", "e", "d", " ", "t", "o", " ", "d", "e", "l", "e", "t", "e", " ", "R", "F", "Q">>
      [] op = "queryRFQs" -> <<"F", "a", "i", "l", "e", "d", " ", "t", "o", " ", "q", "u", "e", "r", "y", " ", "R", "F", "Q", "s">>
      [] OTHER -> <<"F", "a", "i", "l", "e", "d", " ", "t", "o", " ", "g", "e", "t", " ", "R", "F", "Q">>

\* the store call of this attempt is rejected with storeError: fn's catch
\* wraps it, and withRetry's catch breaks or calls sleep(delay)
\* a retry that stamps the data anew
StoreCallThrowsRestamped(call, message, storeError) ==
    LET error == ArkivNetworkError(message, storeError)
        counted == [call EXCEPT !.invoked[call.pc] = @ + 1, !.awaited = Pending]
    IN  IF RetryBreaks(call.r, DEFAULT_RETRY_CONFIG, error)
        THEN Finish([counted EXCEPT !.r = RetryBreak(call.r, error)],
                    Threw(RetryExhausted(RetryBreak(call.r, error), DEFAULT_RETRY_CONFIG)))
        ELSE IF call.pc = "writeEntity"
        THEN [counted EXCEPT !.pc = "sleep",
                             !.r = RetrySleep(call.r, error),
                             !.data.updatedAt = @ + 1]
        ELSE [counted EXCEPT !.pc = "sleep", !.r = RetrySleep(call.r, error)]

StoreCallThrows(call, message, storeError) ==
    LET error == ArkivNetworkError(message, storeError)
        counted == [call EXCEPT !.invoked[call.pc] = @ + 1, !.awaited = Pending]
    IN  IF RetryBreaks(call.r, DEFAULT_RETRY_CONFIG, error)
        THEN Finish([counted EXCEPT !.r = RetryBreak(call.r, error)],
                    Threw(RetryExhausted(RetryBreak(call.r, error), DEFAULT_RETRY_CONFIG)))
        ELSE [counted EXCEPT !.pc = "sleep", !.r = RetrySleep(call.r, error)]

\* the promise of the store call is rejected
StoreCallFails(c) ==
    /\ calls[c].pc \in StoreCalls
    /\ calls[c].awaited.state = "threw"
    /\ calls' = [calls EXCEPT ![c] =
            StoreCallThrows(calls[c],
                            IF calls[c].pc = "getEntity"
                            THEN FailureMessage("getRFQ")
                            ELSE FailureMessage(calls[c].op),
                            calls[c].awaited.error)]
    /\ UNCHANGED <<entities, signer, now, faults, rt, watchVars, ledger>>

\* the timer of sleep(delay) fires: withRetry multiplies delay, counts the
\* attempt and invokes fn, and with it the store call, again
SleepEnds(c) ==
    /\ calls[c].pc = "sleep"
    /\ Invoke(c, [calls[c] EXCEPT !.pc = calls[c].fn,
                                  !.r = RetryWake(calls[c].r, DEFAULT_RETRY_CONFIG)])
    /\ UNCHANGED <<signer, now, rt, watchers, unsubscribed, ledger>>

\* updateRFQ returning null, as getRFQ does, when there is no such RFQ
UpdateRFQAfterGetReturnsNull(call, existingRFQ, current) ==
    IF existingRFQ = Null
    THEN Finish(call, Returned(Null))
    ELSE GetSignerAddress(call, current)

\* updateRFQ after getRFQ returned existingRFQ, up to its next await
UpdateRFQAfterGet(call, existingRFQ, current) ==
    IF existingRFQ = Null
    THEN Finish(call, Threw(RFQNotFoundError(call.id)))
    ELSE GetSignerAddress(call, current)

\* the promise of getEntity is fulfilled: getRFQ returns the RFQ or null, and
\* the caller goes on
GetEntityReturns(c) ==
    /\ calls[c].pc = "getEntity"
    /\ calls[c].awaited.state = "returned"
    /\ LET entity == calls[c].awaited.value
           existingRFQ == IF entity = Null THEN Null ELSE entityToRFQ(entity)
           call == [calls[c] EXCEPT !.r = RetryReturn(@),
                                    !.invoked.getEntity = @ + 1,
                                    !.awaited = Pending,
                                    !.existingRFQ = existingRFQ]
       IN  calls' = [calls EXCEPT ![c] =
                IF call.op = "getRFQ"
                THEN Finish(call, Returned(existingRFQ))
                ELSE UpdateRFQAfterGet(call, existingRFQ, signer)]
    /\ UNCHANGED <<entities, signer, now, faults, rt, watchVars, ledger>>

(***************************************************************************)
(* The wallet's promises resolve.                                          *)
(***************************************************************************)
\* createRFQ from the return of getSignerAddress to the await in signRFQData
CreateRFQAfterAddress(call, creator, clock, random, current) ==
    LET id == generateRFQId(creator, clock, random) IN
    SignRFQData([call EXCEPT !.id = id], current,
                CreateData(call.input, id, creator, clock))

\* updateRFQ from the return of getSignerAddress to the await in signRFQData
UpdateRFQAfterAddress(call, signerAddress, clock, current) ==
    IF ~IsCreator(call.existingRFQ, signerAddress)
    THEN Finish(call, Threw(OwnershipError(MsgNotCreatorUpdate)))
    ELSE IF ~IsOpen(call.existingRFQ)
    THEN Finish(call, Threw(OwnershipError(MsgNotOpen)))
    ELSE SignRFQData(call, current, UpdatedData(call.existingRFQ, call.input, clock))

\* deleteRFQ with updateRFQ's status check
DeleteRFQAfterAddressOpenOnly(call, signerAddress) ==
    IF ~IsCreator(call.existingRFQ, signerAddress)
    THEN Finish(call, Threw(OwnershipError(MsgNotCreatorDelete)))
    ELSE IF ~IsOpen(call.existingRFQ)
    THEN Finish(call, Threw(OwnershipError(MsgNotOpen)))
    ELSE EnterRetry(call, "deleteEntity")

\* deleteRFQ from the return of getSignerAddress to the await of the first
\* deleteEntity, which it invokes
DeleteRFQAfterAddress(call, signerAddress) ==
    IF ~IsCreator(call.existingRFQ, signerAddress)
    THEN Finish(call, Threw(OwnershipError(MsgNotCreatorDelete)))
    ELSE EnterRetry(call, "deleteEntity")

GetAddressReturns(c) ==
    /\ calls[c].pc = "getAddress"
    /\ LET signerAddress == calls[c].using.address
           call == [calls[c] EXCEPT !.signerAddress = signerAddress]
       IN  \E random \in Randoms :
            Invoke(c, CASE call.op = "createRFQ" ->
                            CreateRFQAfterAddress(call, signerAddress, now, random, signer)
                        [] call.op = "deleteRFQ" ->
                            DeleteRFQAfterAddress(call, signerAddress)
                        [] OTHER ->
                            UpdateRFQAfterAddress(call, signerAddress, now, signer))
    /\ UNCHANGED <<signer, now, rt, watchers, unsubscribed, ledger>>

GetAddressThrows(c) ==
    /\ calls[c].pc = "getAddress"
    /\ faults < MaxFaults
    /\ faults' = faults + 1
    /\ calls' = [calls EXCEPT ![c] =
            Finish(@, Threw(SignatureError(MsgGetAddressFailed, WalletError)))]
    /\ UNCHANGED <<entities, signer, now, rt, watchVars, ledger>>

\* the message signed being the serialization of the record read
SignedMessageOfExisting(call) ==
    IF call.existingRFQ = Null
    THEN Stringify(call.data)
    ELSE Stringify(call.existingRFQ)

\* signRFQData: const message = JSON.stringify(data)
SignedMessage(call) == Stringify(call.data)

\* signRFQData returns the signature, withRetry is entered and fn invokes
\* writeEntity
SignMessageReturns(c) ==
    /\ calls[c].pc = "signMessage"
    /\ Invoke(c, EnterRetry([calls[c] EXCEPT !.signature =
                                signMessage(calls[c].using, SignedMessage(calls[c]))],
                            "writeEntity"))
    /\ UNCHANGED <<signer, now, rt, watchers, unsubscribed, ledger>>

SignMessageThrows(c) ==
    /\ calls[c].pc = "signMessage"
    /\ faults < MaxFaults
    /\ faults' = faults + 1
    /\ calls' = [calls EXCEPT ![c] =
            Finish(@, Threw(SignatureError(MsgSignFailed, WalletError)))]
    /\ UNCHANGED <<entities, signer, now, rt, watchVars, ledger>>

(***************************************************************************)
(* The promises of the store's mutations are fulfilled.                    *)
(***************************************************************************)
\* writeEntity returned entity and mapping it throws inside fn's try block:
\* the write has taken effect and withRetry sees a failed attempt
WriteReturnedMappingThrows(call, entity) ==
    StoreCallThrows(call,
                    FailureMessage(call.op),
                    PlainError(<<"c", "a", "n", "n", "o", "t", " ", "r", "e", "a", "d", " ", "e", "n", "t", "i", "t", "y", " ", "d", "a", "t", "a">>))

\* writeEntity returned entity: fn maps it and withRetry returns the RFQ
WriteReturned(call, entity) ==
    Finish([call EXCEPT !.r = RetryReturn(@),
                        !.invoked.writeEntity = @ + 1],
           Returned(entityToRFQ(entity)))

WriteEntityReturns(c) ==
    /\ calls[c].pc = "writeEntity"
    /\ calls[c].awaited.state = "returned"
    /\ calls' = [calls EXCEPT ![c] = WriteReturned(@, calls[c].awaited.value)]
    /\ UNCHANGED <<entities, signer, now, faults, rt, watchVars, ledger>>

\* deleteEntity returned: withRetry returns
DeleteReturned(call) ==
    Finish([call EXCEPT !.r = RetryReturn(@),
                        !.invoked.deleteEntity = @ + 1],
           Returned(Null))

DeleteEntityReturns(c) ==
    /\ calls[c].pc = "deleteEntity"
    /\ calls[c].awaited.state = "returned"
    /\ calls' = [calls EXCEPT ![c] = DeleteReturned(@)]
    /\ UNCHANGED <<entities, signer, now, faults, rt, watchVars, ledger>>

(***************************************************************************)
(* queryRFQs.                                                              *)
(***************************************************************************)
\* queryRFQs(filters, sort, pagination), up to the await of queryEntities,
\* which it invokes
queryRFQs(c, filtersDrawn, sortDrawn, paginationDrawn) ==
    /\ CanStart(c)
    /\ \E filters \in filtersDrawn, sort \in sortDrawn, pagination \in paginationDrawn :
        Invoke(c, EnterRetry([IdleCall EXCEPT !.op = "queryRFQs",
                                             !.startedAt = now,
                                             !.input = [filters |-> filters, sort |-> sort, pagination |-> pagination]],
                            "queryEntities"))
    /\ UNCHANGED <<signer, now, rt, watchers, unsubscribed, ledger>>

\* the promise of queryEntities is fulfilled with its response and queryRFQs
\* returns
QueryEntitiesReturns(c) ==
    /\ calls[c].pc = "queryEntities"
    /\ calls[c].awaited.state = "returned"
    /\ LET options == QueryOptions(calls[c].input.filters, calls[c].input.sort, calls[c].input.pagination)
           response == calls[c].awaited.value
       IN  calls' = [calls EXCEPT ![c] =
                Finish([calls[c] EXCEPT !.r = RetryReturn(@),
                                        !.invoked.queryEntities = @ + 1,
                                        !.response = response],
                       Returned(QueryResult(response, options.limit)))]
    /\ UNCHANGED <<entities, signer, now, faults, rt, watchVars, ledger>>

(***************************************************************************)
(* Specifications.                                                         *)
(***************************************************************************)
\* Stores a newly constructed client may find: empty, or holding an RFQ that
\* a client wrote earlier in the second the model starts in, still open or
\* cancelled or filled since.
EarlierId == generateRFQId(AddrAlice, StartTime, <<"k", "3">>)

EarlierRFQ == CreateData(ValidInput(StartTime), EarlierId, AddrAlice, StartTime)

StoreOf(data) == StoreWrite(<<>>, [entityKey |-> data.id, data |-> data])

InitialStores ==
    {<<>>, StoreOf(EarlierRFQ)}
      \cup {StoreOf(UpdatedData(EarlierRFQ, updates, StartTime)) :
                updates \in {CancelUpdates, [status |-> "FILLED"]}}

\* Spec: one call of a newly constructed client, with every input the model
\* draws, the wallet being set and changed and time passing meanwhile, and
\* the store and the wallet failing up to MaxFaults times.
Init ==
    /\ entities \in InitialStores
    /\ signer = NoSigner
    /\ now = StartTime
    /\ calls = [c \in CallIds |-> IdleCall]
    /\ faults = 0
    /\ rt = RtIdle
    /\ watchers = <<>>
    /\ feed = <<>>
    /\ unsubscribed = <<>>
    /\ ledger = NoLedger

Progress(c) ==
    \/ GetEntityReturns(c)
    \/ GetAddressReturns(c)
    \/ SignMessageReturns(c)
    \/ WriteEntityReturns(c)
    \/ DeleteEntityReturns(c)

Failure(c) ==
    \/ StoreCallFails(c)
    \/ SleepEnds(c)
    \/ GetAddressThrows(c)
    \/ SignMessageThrows(c)

Next ==
    \/ createRFQ(1, CreateInputs(now))
    \/ updateRFQ(1, IdArguments, UpdateInputs)
    \/ cancelRFQ(1, IdArguments)
    \/ deleteRFQ(1, IdArguments)
    \/ getRFQ(1, IdArguments)
    \/ \E s \in Signers : setSigner(s)
    \/ Tick
    \/ Progress(1)
    \/ Failure(1)

Spec == Init /\ [][Next]_vars

\* RaceSpec: two calls in flight at once on the RFQ the store holds, made by
\* a client whose wallet, set after construction, is the RFQ's creator.
RaceInit ==
    /\ entities = StoreOf(EarlierRFQ)
    /\ signer \in {s \in Signers : s.address = AddrAlice}
    /\ now = StartTime
    /\ calls = [c \in CallIds |-> IdleCall]
    /\ faults = MaxFaults     \* the store does not fail
    /\ rt = RtIdle
    /\ watchers = <<>>
    /\ feed = <<>>
    /\ unsubscribed = <<>>
    /\ ledger = NoLedger

RaceNext ==
    \/ \E c \in CallIds : updateRFQ(c, StoredIds, UpdateInputs)
    \/ \E c \in CallIds : cancelRFQ(c, StoredIds)
    \/ \E c \in CallIds : deleteRFQ(c, StoredIds)
    \/ Tick
    \/ \E c \in CallIds : Progress(c)

RaceSpec == RaceInit /\ [][RaceNext]_vars

\* RetrySpec: withRetry on every configuration and plan drawn
RetryInit ==
    /\ entities = <<>>
    /\ signer = NoSigner
    /\ now = StartTime
    /\ calls = [c \in CallIds |-> IdleCall]
    /\ faults = 0
    /\ watchers = <<>>
    /\ feed = <<>>
    /\ unsubscribed = <<>>
    /\ ledger = NoLedger
    /\ \E config \in RetryConfigs, plan \in Plans : rt = RtStart(config, plan)

RetryNext ==
    \/ RtInvokeReturns
    \/ RtInvokeBreaks
    \/ RtInvokeSleeps
    \/ RtSleepEnds

RetrySpec == RetryInit /\ [][RetryNext]_vars

\* RetryFairSpec: the promises withRetry awaits, fn() and sleep(delay),
\* settle, and the event loop then runs withRetry's continuation.
RetryFairSpec == RetrySpec /\ WF_vars(RetryNext)

\* SeqSpec: a client whose wallet is set makes one call after another on
\* the RFQ the store holds, with no other operation in flight.
NoCallInFlight == \A c \in CallIds : calls[c].pc \in {"idle", "done"}

SeqInit ==
    /\ entities \in InitialStores \ {<<>>}
    /\ signer \in Signers
    /\ now = StartTime
    /\ calls = [c \in CallIds |-> IdleCall]
    /\ faults = 0
    /\ rt = RtIdle
    /\ watchers = <<>>
    /\ feed = <<>>
    /\ unsubscribed = <<>>
    /\ ledger = NoLedger

SeqNext ==
    \/ NoCallInFlight /\ \E c \in CallIds : updateRFQ(c, {EarlierId}, UpdateInputs)
    \/ NoCallInFlight /\ \E c \in CallIds : cancelRFQ(c, {EarlierId})
    \/ NoCallInFlight /\ \E c \in CallIds : deleteRFQ(c, {EarlierId})
    \/ NoCallInFlight /\ \E c \in CallIds : getRFQ(c, {EarlierId})
    \/ \E c \in CallIds : Progress(c)
    \/ \E c \in CallIds : StoreCallFails(c)
    \/ \E c \in CallIds : SleepEnds(c)

SeqSpec == SeqInit /\ [][SeqNext]_vars

\* objects given as updates that have properties UpdateRFQInput does not
\* name: the type of the parameter admits an object with more properties
\* than it names, and { ...existingRFQ, ...updates } copies every one
WiderUpdates ==
    {[baseAmount |-> <<"7">>, creator |-> AddrBob],
     [status |-> "FILLED", createdAt |-> StartTime + 7200],
     [quoteAmount |-> <<"9">>, id |-> MissingId, quoteToken |-> TokenBase]}

\* FrameSpec: the creator of the RFQ the store holds updates and cancels it,
\* one call after another; the store does not fail.
FrameInit ==
    /\ entities = StoreOf(EarlierRFQ)
    /\ signer \in {s \in Signers : s.address = AddrAlice}
    /\ now = StartTime
    /\ calls = [c \in CallIds |-> IdleCall]
    /\ faults = MaxFaults
    /\ rt = RtIdle
    /\ watchers = <<>>
    /\ feed = <<>>
    /\ unsubscribed = <<>>
    /\ ledger = NoLedger

FrameNext ==
    \/ NoCallInFlight /\ \E c \in CallIds : updateRFQ(c, {EarlierId}, UpdateInputs \cup WiderUpdates)
    \/ NoCallInFlight /\ \E c \in CallIds : cancelRFQ(c, {EarlierId})
    \/ Tick
    \/ \E c \in CallIds : GetEntityReturns(c)
    \/ \E c \in CallIds : GetAddressReturns(c)
    \/ \E c \in CallIds : SignMessageReturns(c)
    \/ \E c \in CallIds : WriteEntityReturns(c)

FrameSpec == FrameInit /\ [][FrameNext]_vars

\* QuerySpec: over a store that holds RFQs of alice and of bob, a client
\* creates RFQs, one call after another, and then queries the store; the
\* store fails up to MaxFaults times.
OtherToken == [address |-> <<"0", "x">> \o Rep("3", AddressHexLen), chainId |-> 1]

BobRFQ ==
    CreateData([ValidInput(StartTime) EXCEPT !.baseToken = OtherToken, !.expiresIn = StartTime + 7200],
               generateRFQId(AddrBob, StartTime, <<"b", "0">>), AddrBob, StartTime)

\* the RFQ alice created age seconds before the start, to expire age
\* seconds after EarlierRFQ does
AgedRFQ(age) ==
    CreateData([ValidInput(StartTime) EXCEPT !.expiresIn = StartTime + 3600 + age],
               generateRFQId(AddrAlice, StartTime - age, <<"k", "3">>), AddrAlice, StartTime - age)

\* a store of one RFQ more than a page of the default limit holds
FullStore ==
    [id \in {AgedRFQ(age).id : age \in 0..DEFAULT_PAGE_LIMIT} |->
        [entityKey |-> id,
         data |-> CHOOSE data \in {AgedRFQ(age) : age \in 0..DEFAULT_PAGE_LIMIT} : data.id = id]]

QueryStores ==
    {<<>>,
     StoreOf(EarlierRFQ),
     StoreOf(BobRFQ),
     StoreWrite(StoreOf(EarlierRFQ), [entityKey |-> BobRFQ.id, data |-> BobRFQ]),
     FullStore}

QueryFiltersDrawn ==
    {{},
     {filterByTokenPair(TokenBase.address, TokenBase.chainId, TokenQuote.address, TokenQuote.chainId).value},
     {filterByTokenPair(OtherToken.address, OtherToken.chainId, TokenQuote.address, 5).value},
     {filterByCreator(AddrAlice).value},
     {filterByCreator(AddrAliceLower).value},
     {filterByCreator(AddrBob).value},
     {[NoQueryFilters EXCEPT !.status = {"OPEN"}]},
     {[NoQueryFilters EXCEPT !.chain = {1}]},
     {[NoQueryFilters EXCEPT !.expiration = {[minTime |-> StartTime + 3600, maxTime |-> StartTime + 3600]}]}}

SortsDrawn ==
    {{}, {[sortBy |-> "expiration", ascending |-> {TRUE}]}, {[sortBy |-> "bestPrice", ascending |-> {}]}}

\* pagination: none; a limit of 1, of 2, of 0 and of -1
PaginationsDrawn ==
    {{}} \cup {{[limit |-> {limit}, cursor |-> {}]} : limit \in {1, 2, 0, 0 - 1}}

NoQueryMade == \A c \in CallIds : calls[c].op # "queryRFQs"

\* RFQs are created in QuerySpec while the store holds no more than these
MaxStoredToCreate == 3

QueryInit ==
    /\ entities \in QueryStores
    /\ signer \in Signers
    /\ now = StartTime
    /\ calls = [c \in CallIds |-> IdleCall]
    /\ faults = 0
    /\ rt = RtIdle
    /\ watchers = <<>>
    /\ feed = <<>>
    /\ unsubscribed = <<>>
    /\ ledger = NoLedger

QueryNext ==
    \/ NoCallInFlight /\ NoQueryMade /\ getEntityCount(entities) <= MaxStoredToCreate
            /\ \E c \in CallIds : createRFQ(c, {ValidInput(now)})
    \/ NoCallInFlight /\ NoQueryMade
            /\ \E c \in CallIds : queryRFQs(c, QueryFiltersDrawn, SortsDrawn, PaginationsDrawn)
    \/ \E c \in CallIds : GetAddressReturns(c)
    \/ \E c \in CallIds : SignMessageReturns(c)
    \/ \E c \in CallIds : WriteEntityReturns(c)
    \/ \E c \in CallIds : QueryEntitiesReturns(c)
    \/ \E c \in CallIds : StoreCallFails(c)
    \/ \E c \in CallIds : SleepEnds(c)

QuerySpec == QueryInit /\ [][QueryNext]_vars

\* FeedSpec: watchers come and go between the calls of a client that
\* creates, updates, cancels and deletes RFQs, one call after another; the
\* store delivers 'updated' notifications of stored entities and may be
\* cleared.
HandlerSets == SUBSET Handlers

LaterHandlerSets == {{"onCreated"}, {"onUpdated"}, Handlers}

\* filters given to watchRFQs: none, a status, the creator's address
WatchFiltersDrawn ==
    {{},
     {[NoQueryFilters EXCEPT !.status = {"CANCELLED"}]},
     {filterByCreator(AddrAlice).value}}

\* pollingInterval given to watchRFQs: none, 0 and 500 ms
PollingIntervalsDrawn == {{}, {0}, {500}}

\* watchRFQs' options without filters and pollingInterval
HandlersOnly(handlerSets) ==
    [handlers : handlerSets, filters : {{}}, pollingInterval : {{}}]

\* every combination of filters and pollingInterval drawn, for the handlers
\* of LaterHandlerSets
WatchOptionsDrawn ==
    [handlers : LaterHandlerSets, filters : WatchFiltersDrawn, pollingInterval : PollingIntervalsDrawn]

\* The first watcher is drawn from every combination of handlers and, with
\* filters and a pollingInterval, from WatchOptionsDrawn; a later one from
\* LaterHandlerSets, without filters or with the filter on the status.
FirstWatchOptions == HandlersOnly(HandlerSets) \cup WatchOptionsDrawn

LaterWatchOptions ==
    HandlersOnly(LaterHandlerSets)
        \cup [handlers : {Handlers}, filters : {{[NoQueryFilters EXCEPT !.status = {"CANCELLED"}]}}, pollingInterval : {{500}}]

\* WatchSpec draws from these
FewWatchOptions ==
    LaterWatchOptions
        \cup [handlers : {{"onCreated"}}, filters : {{filterByCreator(AddrAlice).value}}, pollingInterval : {{0}}]

StoredEntities == {entities[id] : id \in DOMAIN entities}

FeedInit ==
    /\ entities = <<>>
    /\ signer \in {s \in Signers : s.address = AddrAlice}
    /\ now = StartTime
    /\ calls = [c \in CallIds |-> IdleCall]
    /\ faults = MaxFaults     \* the store does not fail
    /\ rt = RtIdle
    /\ watchers = <<>>
    /\ feed = <<>>
    /\ unsubscribed = <<>>
    /\ ledger = NoLedger

FeedNext ==
    \/ NoCallInFlight /\ watchRFQs(IF unsubscribed = <<>> THEN FirstWatchOptions ELSE LaterWatchOptions)
    \/ NoCallInFlight /\ \E watch \in 1..MaxWatchers : unsubscribe(watch)
    \/ NoCallInFlight /\ simulateEntityUpdate(StoredEntities)
    \/ NoCallInFlight /\ clear
    \/ NoCallInFlight /\ \E c \in CallIds : createRFQ(c, {ValidInput(now)})
    \/ NoCallInFlight /\ \E c \in CallIds : updateRFQ(c, StoredIds, UpdateInputs)
    \/ NoCallInFlight /\ \E c \in CallIds : cancelRFQ(c, StoredIds)
    \/ NoCallInFlight /\ \E c \in CallIds : deleteRFQ(c, StoredIds)
    \/ \E c \in CallIds : Progress(c)

FeedSpec == FeedInit /\ [][FeedNext]_vars

(***************************************************************************)
(* Properties.                                                             *)
(***************************************************************************)
MutatingOps == {"createRFQ", "updateRFQ", "cancelRFQ", "deleteRFQ"}

TerminalStatuses == {"CANCELLED", "FILLED"}

\* the call has ended by throwing an error of this name
Failed(call, name) ==
    /\ call.pc = "done"
    /\ call.outcome.state = "threw"
    /\ call.outcome.error.name = name

\* the call has ended by returning
Succeeded(call) ==
    /\ call.pc = "done"
    /\ call.outcome.state = "returned"

\* the step in which call c invokes this store call
Invokes(c, storeCall) ==
    /\ calls[c].pc # storeCall
    /\ calls'[c].pc = storeCall

\* the step in which the store does the writeEntity or deleteEntity that
\* call c invokes
Commits(c) == calls'[c].commits = calls[c].commits + 1

\* C1: the status of a stored RFQ changes only from OPEN to CANCELLED or from
\* OPEN to FILLED; a stored status of CANCELLED or FILLED never changes,
\* whatever the interleaving of concurrent updateRFQ and cancelRFQ calls on
\* the id (RaceSpec).
C1_OnlyOpenStatusChanges ==
    [][\A id \in DOMAIN entities \cap DOMAIN entities' :
            entities'[id].data.status # entities[id].data.status
                => /\ entities[id].data.status = "OPEN"
                   /\ entities'[id].data.status \in TerminalStatuses]_vars

\* two calls read the RFQ while it was OPEN; one wrote CANCELLED or FILLED
\* and returned, and the other has then written what it merged from its
\* snapshot: the store holds its record, of another status
C1_StaleWriteLanded ==
    \E c \in CallIds, d \in CallIds :
        /\ c # d
        /\ Succeeded(calls[c])
        /\ calls[c].op \in {"updateRFQ", "cancelRFQ"}
        /\ calls[c].data.status \in TerminalStatuses
        /\ calls[d].op \in {"updateRFQ", "cancelRFQ"}
        /\ calls[d].id = calls[c].id
        /\ calls[d].existingRFQ = calls[c].existingRFQ
        /\ calls[d].commits = 1
        /\ calls[d].id \in DOMAIN entities
        /\ entities[calls[d].id].data = calls[d].data
        /\ calls[d].data.status # calls[c].data.status

\* C2: an updateRFQ, cancelRFQ or deleteRFQ call that found the RFQ and whose
\* signer reported an address that differs from the stored creator, letter
\* case ignored, has failed with OwnershipError without a write or a delete;
\* a call whose signer's address equals the creator up to letter case has not
\* failed the ownership check.
C2_OwnershipCheck ==
    \A c \in CallIds :
        LET call == calls[c] IN
        (call.op \in {"updateRFQ", "cancelRFQ", "deleteRFQ"} /\ call.signerAddress # Undefined)
            => IF toLowerCase(call.signerAddress) # toLowerCase(call.existingRFQ.creator)
               THEN /\ Failed(call, "OwnershipError")
                    /\ call.invoked.writeEntity = 0
                    /\ call.invoked.deleteEntity = 0
                    /\ call.commits = 0
               ELSE call.outcome.error \notin {OwnershipError(MsgNotCreatorUpdate),
                                               OwnershipError(MsgNotCreatorDelete)}

\* a call by another account has been refused
C2_StrangerRefused ==
    \E c \in CallIds :
        /\ calls[c].op \in {"updateRFQ", "cancelRFQ", "deleteRFQ"}
        /\ calls[c].existingRFQ # Null
        /\ calls[c].signerAddress = AddrBob
        /\ Failed(calls[c], "OwnershipError")

\* C3: an updateRFQ or cancelRFQ call that found the RFQ with a status other
\* than OPEN never signs, never invokes writeEntity and never succeeds; once
\* its signer has reported an address, the creator's or not, it has failed
\* with OwnershipError.
C3_NonOpenRefused ==
    \A c \in CallIds :
        LET call == calls[c] IN
        (/\ call.op \in {"updateRFQ", "cancelRFQ"}
         /\ call.existingRFQ # Null
         /\ call.existingRFQ.status # "OPEN")
            => /\ call.pc \notin {"signMessage", "writeEntity", "sleep"}
               /\ call.invoked.writeEntity = 0
               /\ call.commits = 0
               /\ ~Succeeded(call)
               /\ call.signerAddress # Undefined => Failed(call, "OwnershipError")

\* the creator's update of an RFQ that is not OPEN has been refused
C3_CreatorRefused ==
    \E c \in CallIds :
        /\ calls[c].op \in {"updateRFQ", "cancelRFQ"}
        /\ calls[c].existingRFQ # Null
        /\ calls[c].existingRFQ.status \in TerminalStatuses
        /\ toLowerCase(calls[c].signerAddress) = toLowerCase(calls[c].existingRFQ.creator)
        /\ calls[c].outcome.error = OwnershipError(MsgNotOpen)

\* C4: a createRFQ, updateRFQ, cancelRFQ or deleteRFQ call that has returned
\* committed exactly one store mutation and one that has thrown committed
\* none; a call whose mutation the store has done awaits only the promise of
\* that store call, which is fulfilled; and the store changes only in the
\* step in which a call has its first mutation done.  So a call that ends in
\* an error leaves the store as it was, whatever store calls failed and were
\* retried.
C4_NoPartialSuccess ==
    /\ [](\A c \in CallIds :
            (calls[c].op \in MutatingOps /\ calls[c].pc = "done")
                => calls[c].commits = IF calls[c].outcome.state = "returned" THEN 1 ELSE 0)
    /\ [](\A c \in CallIds :
            (calls[c].op \in MutatingOps /\ calls[c].pc # "done" /\ calls[c].commits # 0)
                => /\ calls[c].commits = 1
                   /\ calls[c].pc \in {"writeEntity", "deleteEntity"}
                   /\ calls[c].awaited.state = "returned")
    /\ [][entities' # entities
            => \E c \in CallIds :
                    /\ calls[c].commits = 0
                    /\ Commits(c)
                    /\ calls'[c].pc \in {"writeEntity", "deleteEntity"}]_vars

\* an update has returned after its read and its write were each retried
C4_RetriedThenEnded ==
    \E c \in CallIds :
        /\ calls[c].op \in MutatingOps
        /\ Succeeded(calls[c])
        /\ calls[c].invoked.writeEntity >= 2
        /\ calls[c].invoked.getEntity >= 2

\* what C5 says of the record a successful createRFQ returns and stores
CreateReturnsRecord(c) ==
    LET rfq == calls'[c].outcome.value
        input == calls[c].input
    IN  /\ rfq.status = "OPEN"
        /\ rfq.createdAt = rfq.updatedAt
        /\ rfq.creator = calls[c].signerAddress
        /\ rfq.creator \in {s.address : s \in Signers}
        /\ rfq.baseToken = input.baseToken
        /\ rfq.quoteToken = input.quoteToken
        /\ rfq.baseAmount = input.baseAmount
        /\ rfq.quoteAmount = input.quoteAmount
        /\ rfq.expiresIn = input.expiresIn
        /\ rfq.id \in DOMAIN entities'
        /\ entities'[rfq.id].entityKey = rfq.id
        /\ entities'[rfq.id].data.id = rfq.id
        /\ entityToRFQ(entities'[rfq.id]) = rfq

\* the step in which createRFQ returns
CreateReturns(c) ==
    /\ calls[c].op = "createRFQ"
    /\ calls[c].pc = "writeEntity"
    /\ Succeeded(calls'[c])

\* the step in which the store does the writeEntity of createRFQ
CreateWrites(c) ==
    /\ calls[c].op = "createRFQ"
    /\ Commits(c)

\* C5 as stated: a successful createRFQ returns an OPEN record with
\* createdAt = updatedAt, the signer's address as creator and the input's
\* tokens, amounts and expiresIn; the store holds it under its id; and the
\* store holds one entity more than before.
C5_CreateAddsOneEntity ==
    [][\A c \in CallIds :
            /\ CreateReturns(c) => CreateReturnsRecord(c)
            /\ CreateWrites(c)
                => getEntityCount(entities') = getEntityCount(entities) + 1]_vars

\* C5, amended: the same of the record; the store holds one entity more than
\* before unless the generated id was the key of a stored entity, which the
\* new record then replaces.
C5_CreateStoresRecord ==
    [][\A c \in CallIds :
            /\ CreateReturns(c) => CreateReturnsRecord(c)
            /\ CreateWrites(c)
                => getEntityCount(entities') =
                        getEntityCount(entities)
                            + (IF calls'[c].id \in DOMAIN entities THEN 0 ELSE 1)]_vars

\* createRFQ has returned and the store holds the new RFQ beside the earlier
C5_CreatedBesideEarlier ==
    \E c \in CallIds :
        /\ calls[c].op = "createRFQ"
        /\ Succeeded(calls[c])
        /\ calls[c].outcome.value.id # EarlierId
        /\ DOMAIN entities = {EarlierId, calls[c].outcome.value.id}

\* C6: createRFQ with an input that one of the validators refuses throws
\* ValidationError in the step in which it is called, having invoked no store
\* operation and with the store unchanged; and no call that has thrown
\* ValidationError has invoked a store operation.
C6_InvalidInputRefused ==
    /\ [](\A c \in CallIds :
            Failed(calls[c], "ValidationError")
                => calls[c].invoked = NoStoreCalls /\ calls[c].commits = 0)
    /\ [][\A c \in CallIds :
            (/\ calls[c].pc = "idle"
             /\ calls'[c].op = "createRFQ"
             /\ calls'[c].input \in InvalidInputs(now))
                => /\ Failed(calls'[c], "ValidationError")
                   /\ calls'[c].invoked = NoStoreCalls
                   /\ getEntityCount(entities') = getEntityCount(entities)
                   /\ entities' = entities]_vars

\* createRFQ with a signer configured has refused an amount of '0'
C6_ZeroAmountRefused ==
    \E c \in CallIds :
        /\ calls[c].op = "createRFQ"
        /\ calls[c].input.baseAmount = <<"0">>
        /\ signer # NoSigner
        /\ Failed(calls[c], "ValidationError")

\* every input the model draws that is valid when createRFQ is called
ValidInputsDrawn == UNION {ValidInputs(clock) : clock \in StartTime..(StartTime + MaxTicks)}

\* a mutating call with valid arguments: a valid input, the id of a stored RFQ
ValidArguments(call) ==
    IF call.op = "createRFQ"
    THEN call.input \in ValidInputsDrawn
    ELSE call.id \in DOMAIN entities

\* C7 as stated: while no signer is configured, a mutating call with valid
\* arguments has invoked no store operation, and when it has ended it has
\* thrown SignatureError.
C7_NoSignerNoStoreCall ==
    \A c \in CallIds :
        (calls[c].op \in MutatingOps /\ signer = NoSigner /\ ValidArguments(calls[c]))
            => /\ calls[c].invoked = NoStoreCalls
               /\ calls[c].pc = "done" => Failed(calls[c], "SignatureError")

\* C7, amended: while no signer is configured, createRFQ with a valid input
\* throws SignatureError at once, having invoked no store operation;
\* updateRFQ, cancelRFQ and deleteRFQ with the id of a stored RFQ first read
\* it with getEntity, and then throw SignatureError if the read returned the
\* RFQ or ArkivNetworkError if the read failed; none of them invokes
\* writeEntity or deleteEntity.
C7_NoSignerNoMutation ==
    \A c \in CallIds :
        LET call == calls[c] IN
        (call.op \in MutatingOps /\ signer = NoSigner /\ ValidArguments(call))
            => /\ call.invoked.writeEntity = 0
               /\ call.invoked.deleteEntity = 0
               /\ call.commits = 0
               /\ IF call.op = "createRFQ"
                  THEN Failed(call, "SignatureError") /\ call.invoked = NoStoreCalls
                  ELSE /\ call.pc \in {"getEntity", "sleep", "done"}
                       /\ call.pc \in {"getEntity", "sleep"} => call.existingRFQ = Null
                       /\ call.pc = "done" =>
                            IF call.existingRFQ # Null
                            THEN Failed(call, "SignatureError")
                            ELSE Failed(call, "ArkivNetworkError")

\* with no signer, a deleteRFQ has thrown SignatureError after reading the RFQ
C7_DeleteReadThenRefused ==
    \E c \in CallIds :
        /\ signer = NoSigner
        /\ calls[c].op = "deleteRFQ"
        /\ calls[c].invoked.getEntity >= 1
        /\ calls[c].existingRFQ # Null
        /\ calls[c].outcome.error = SignatureError(MsgNoSigner, NoError)

\* the step in which a cancelRFQ(id), or an updateRFQ(id, {status: CANCELLED}),
\* returns
CancelReturns(c) ==
    /\ \/ calls[c].op = "cancelRFQ"
       \/ calls[c].op = "updateRFQ" /\ calls[c].input = [status |-> "CANCELLED"]
    /\ calls[c].pc = "writeEntity"
    /\ Succeeded(calls'[c])

\* what C8 says of the record cancelRFQ returns and stores, but for the order
\* of the two values of updatedAt
CancelReturnsRecord(c) ==
    LET before == calls[c].existingRFQ
        rfq == calls'[c].outcome.value
    IN  /\ before.status = "OPEN"
        /\ toLowerCase(calls[c].signerAddress) = toLowerCase(before.creator)
        /\ rfq.id = calls[c].id
        /\ rfq.id = before.id
        /\ rfq.status = "CANCELLED"
        /\ rfq = [before EXCEPT !.status = "CANCELLED", !.updatedAt = rfq.updatedAt]
        /\ rfq.id \in DOMAIN entities'
        /\ entityToRFQ(entities'[rfq.id]) = rfq

\* C8 as stated: cancelRFQ(id) and updateRFQ(id, {status: CANCELLED}), when
\* they succeed, return and store the record they read with status CANCELLED
\* and with an updatedAt strictly later than the one they read.
C8_CancelStrictlyLater ==
    [][\A c \in CallIds :
            CancelReturns(c)
                => /\ CancelReturnsRecord(c)
                   /\ calls'[c].outcome.value.updatedAt > calls[c].existingRFQ.updatedAt]_vars

\* C8, amended: the same, with an updatedAt that is the clock's second at some
\* moment of the call, not earlier than the updatedAt read: later when a
\* second has passed since that update, equal to it otherwise.
C8_CancelNotEarlier ==
    [][\A c \in CallIds :
            CancelReturns(c)
                => /\ CancelReturnsRecord(c)
                   /\ calls'[c].outcome.value.updatedAt >= calls[c].existingRFQ.updatedAt
                   /\ calls'[c].outcome.value.updatedAt >= calls[c].startedAt
                   /\ calls'[c].outcome.value.updatedAt <= now]_vars

\* cancelRFQ has returned a record updated later than the one it read
C8_CancelledLater ==
    \E c \in CallIds :
        /\ calls[c].op = "cancelRFQ"
        /\ Succeeded(calls[c])
        /\ calls[c].outcome.value.status = "CANCELLED"
        /\ calls[c].outcome.value.updatedAt > calls[c].existingRFQ.updatedAt
        /\ entities[calls[c].id].data = calls[c].outcome.value

\* C9 (RetrySpec): when fn throws retryable errors on its first k - 1
\* invocations and returns a value on the k-th, with k <= maxRetries + 1,
\* withRetry never throws and never invokes fn more than k times, and when it
\* has ended it has returned that value after exactly k invocations.
C9_ReturnsOnKthInvocation ==
    (/\ rt.pc # "idle"
     /\ rt.plan.then.returns
     /\ \A e \in {rt.plan.first, rt.plan.second} : e \in RetryableErrors
     /\ rt.plan.fails + 1 <= rt.config.maxRetries + 1)
        => /\ rt.pc \in {"loop", "sleep", "returned"}
           /\ rt.r.invoked <= rt.plan.fails + 1
           /\ rt.pc \in {"loop", "sleep"} => rt.r.invoked <= rt.plan.fails
           /\ rt.pc = "returned" => /\ rt.returned = rt.plan.then.value
                                    /\ rt.r.invoked = rt.plan.fails + 1

\* fn failed twice and then returned, with maxRetries = 3: 3 invocations
C9_ThirdInvocationReturned ==
    /\ rt.pc = "returned"
    /\ rt.config.maxRetries = 3
    /\ rt.plan.fails = 2
    /\ rt.r.invoked = 3
    /\ rt.returned = rt.plan.then.value

\* C10 (RetrySpec): when the last invocation of fn threw a non-retryable
\* error, withRetry has thrown: fn is not invoked again, and withRetry slept
\* once after each invocation before that one and not after it.
C10_NonRetryableAborts ==
    (/\ rt.pc # "idle"
     /\ rt.r.invoked >= 1
     /\ ~PlanOutcome(rt.plan, rt.r.invoked).returns
     /\ PlanOutcome(rt.plan, rt.r.invoked).error \in NonRetryableErrors)
        => /\ rt.pc = "thrown"
           /\ rt.r.lastError = PlanOutcome(rt.plan, rt.r.invoked).error
           /\ Len(rt.r.slept) = rt.r.invoked - 1
           /\ rt.r.attempt = rt.r.invoked - 1

\* after two retries the store's '404' ended withRetry with time to spare
C10_AbortedOn404 ==
    /\ rt.pc = "thrown"
    /\ rt.config.maxRetries = 3
    /\ rt.plan.fails = 2
    /\ rt.r.invoked = 3
    /\ rt.r.lastError = PlainError(<<"H", "T", "T", "P", " ", "4", "0", "4", " ", "N", "o", "t", " ", "F", "o", "u", "n", "d">>)
    /\ Len(rt.r.slept) = 2

\* the message carries the token of an HTTP 400 or 404
HasClientErrorToken(message) ==
    \/ includes(message, <<"4", "0", "0">>)
    \/ includes(message, <<"4", "0", "4">>)

\* C11: when the store call a client call made last failed with an error
\* whose message contains "400" or "404", the call has ended: that store call
\* was invoked exactly once inside its withRetry and no backoff was waited.
C11_ClientErrorNotRetried ==
    \A c \in CallIds :
        (/\ calls[c].op # "none"
         /\ calls[c].r.lastError.name = "ArkivNetworkError"
         /\ HasClientErrorToken(calls[c].r.lastError.originalError.message))
            => /\ calls[c].r.invoked = 1
               /\ calls[c].r.slept = <<>>
               /\ calls[c].pc = "done"

\* getEntity failed with 'HTTP 404 Not Found' four times over: getRFQ waited
\* three backoff delays in between before it threw
C11_NotFoundRetriedThrice ==
    /\ calls[1].op = "getRFQ"
    /\ calls[1].pc = "done"
    /\ calls[1].outcome.state = "threw"
    /\ calls[1].r.lastError.name = "ArkivNetworkError"
    /\ calls[1].r.lastError.originalError = PlainError(<<"H", "T", "T", "P", " ", "4", "0", "4", " ", "N", "o", "t", " ", "F", "o", "u", "n", "d">>)
    /\ calls[1].invoked.getEntity = 4
    /\ calls[1].r.slept = <<1000, 2000, 4000>>

\* C12 (RetryFairSpec): withRetry never invokes fn more than maxRetries + 1
\* times, and whatever fn's invocations do it eventually returns or throws.
C12_BoundedAndCompletes ==
    /\ [](rt.r.invoked <= rt.config.maxRetries + 1)
    /\ <>(rt.pc \in {"returned", "thrown"})

\* every one of the maxRetries + 1 = 4 invocations failed and withRetry threw
C12_ThrewAfterLastAttempt ==
    /\ rt.pc = "thrown"
    /\ rt.config.maxRetries = 3
    /\ rt.r.invoked = 4
    /\ rt.r.attempt = 3
    /\ rt.plan.fails = 4

\* the message of the error withRetry throws when it records n attempts
AttemptsMessage(n) ==
    <<"O", "p", "e", "r", "a", "t", "i", "o", "n", " ", "f", "a", "i", "l", "e", "d", " ", "a", "f", "t", "e", "r", " ">> \o Dec(n) \o <<" ", "a", "t", "t", "e", "m", "p", "t", "s">>

\* C13 (RetrySpec): when withRetry has thrown, the error is an
\* ArkivNetworkError that wraps the error fn threw on its last invocation and
\* records as its attempt count the number of times fn was invoked.
C13_ThrownRecordsInvocations ==
    rt.pc = "thrown"
        => /\ ~PlanOutcome(rt.plan, rt.r.invoked).returns
           /\ rt.thrown = ArkivNetworkError(AttemptsMessage(rt.r.invoked),
                                            PlanOutcome(rt.plan, rt.r.invoked).error)

\* fn threw a ValidationError on its only invocation and, maxRetries being 3,
\* the error thrown says 4 attempts
C13_OneInvocationFourRecorded ==
    /\ rt.pc = "thrown"
    /\ rt.config.maxRetries = 3
    /\ rt.r.invoked = 1
    /\ rt.r.lastError.name = "ValidationError"
    /\ rt.thrown.originalError = rt.r.lastError
    /\ rt.thrown.message = <<"N", "e", "t", "w", "o", "r", "k", " ", "e", "r", "r", "o", "r", ":", " ">> \o AttemptsMessage(4)

RECURSIVE Pow(_, _)
Pow(b, n) == IF n = 0 THEN 1 ELSE b * Pow(b, n - 1)

\* C14 (RetrySpec): the delay withRetry waited before its k-th retry is
\* min(initialDelay * backoffMultiplier^(k-1), maxDelay), so that no delay
\* waited exceeds maxDelay.
C14_DelayIsClampedPower ==
    rt.pc # "idle"
        => \A k \in 1..Len(rt.r.slept) :
            /\ rt.r.slept[k] = Min(rt.config.initialDelay * Pow(rt.config.backoffMultiplier, k - 1),
                                   rt.config.maxDelay)
            /\ rt.r.slept[k] <= rt.config.maxDelay

\* with initialDelay 5000 and maxDelay 2000 the first delay waited was 5000
C14_FirstDelayOverMax ==
    /\ rt.pc # "idle"
    /\ rt.config.initialDelay = 5000
    /\ rt.config.maxDelay = 2000
    /\ Len(rt.r.slept) >= 1
    /\ rt.r.slept[1] = 5000

\* the promise of call c's getEntity is fulfilled in this step
GetEntityAnswers(c) ==
    /\ calls[c].pc = "getEntity"
    /\ calls[c].awaited.state = "returned"
    /\ calls'[c] # calls[c]

\* C15: when getEntity answers that no record is stored under the id, getRFQ
\* returns null, while updateRFQ, cancelRFQ and deleteRFQ throw
\* RFQNotFoundError for that id; the call has ended without a writeEntity or
\* a deleteEntity and the store is as it was.
C15_MissingIdHandled ==
    [][\A c \in CallIds :
        (GetEntityAnswers(c) /\ calls[c].awaited.value = Null)
            => /\ calls'[c].pc = "done"
               /\ calls'[c].outcome =
                    IF calls[c].op = "getRFQ"
                    THEN Returned(Null)
                    ELSE Threw(RFQNotFoundError(calls[c].id))
               /\ calls[c].op \in {"getRFQ", "updateRFQ", "cancelRFQ", "deleteRFQ"}
               /\ calls'[c].invoked.writeEntity = 0
               /\ calls'[c].invoked.deleteEntity = 0
               /\ calls'[c].commits = 0
               /\ entities' = entities]_vars

\* cancelRFQ of an id the store does not hold was refused on the second read,
\* the first having failed
C15_CancelOfMissingRefused ==
    /\ calls[1].op = "cancelRFQ"
    /\ calls[1].id = MissingId
    /\ MissingId \notin DOMAIN entities
    /\ calls[1].pc = "done"
    /\ calls[1].outcome = Threw(RFQNotFoundError(MissingId))
    /\ calls[1].invoked = [NoStoreCalls EXCEPT !.getEntity = 2]

\* deleteRFQ read a stored RFQ and the wallet's address is its creator's, in
\* whatever case
DeleteByCreator(call) ==
    /\ call.op = "deleteRFQ"
    /\ call.existingRFQ # Null
    /\ call.signerAddress # Undefined
    /\ toLowerCase(call.signerAddress) = toLowerCase(call.existingRFQ.creator)

\* C16 (SeqSpec): a deleteRFQ by the creator is not refused, whatever the
\* status of the RFQ it read: it goes on to deleteEntity and ends by
\* returning once the store has deleted, or with the ArkivNetworkError of a
\* store whose deleteEntity failed on every attempt.  After it has
\* returned the record is gone, and a getRFQ of the id made after it, no
\* other call being in flight, returns null when the store answers.
C16_CreatorDeletesAnyStatus ==
    \A c \in CallIds :
        DeleteByCreator(calls[c])
            => /\ calls[c].pc \in {"deleteEntity", "sleep", "done"}
               /\ calls[c].fn = "deleteEntity"
               /\ calls[c].existingRFQ.status \in {"OPEN", "FILLED", "CANCELLED"}
               /\ calls[c].pc = "done"
                    => \/ /\ calls[c].outcome = Returned(Null)
                          /\ calls[c].commits = 1
                          /\ calls[c].id \notin DOMAIN entities
                          /\ \A later \in CallIds :
                                (/\ later > c
                                 /\ calls[later].op = "getRFQ"
                                 /\ calls[later].id = calls[c].id
                                 /\ calls[later].pc = "done"
                                 /\ ~Failed(calls[later], "ArkivNetworkError"))
                                    => calls[later].outcome = Returned(Null)
                       \/ /\ Failed(calls[c], "ArkivNetworkError")
                          /\ calls[c].commits = 0
                          /\ calls[c].invoked.deleteEntity = DEFAULT_RETRY_CONFIG.maxRetries + 1

\* the creator, her address in lower case, deleted her filled RFQ, and the
\* getRFQ she made next returned null
C16_FilledDeletedThenNull ==
    /\ DeleteByCreator(calls[1])
    /\ calls[1].existingRFQ.status = "FILLED"
    /\ calls[1].signerAddress = AddrAliceLower
    /\ calls[1].existingRFQ.creator = AddrAlice
    /\ calls[1].outcome = Returned(Null)
    /\ calls[2].op = "getRFQ"
    /\ calls[2].id = calls[1].id
    /\ calls[2].outcome = Returned(Null)
    /\ calls[2].pc = "done"

\* the handler calls made to the watcher `watch` by the notification n
CallsTo(watch, n) ==
    LET Mine(called) == called.watch = watch IN SelectSeq(n.called, Mine)

\* triggerWatchers calls the watcher's callbacks for this notification: the
\* entity matches the filters the watcher was registered with
Reaches(watcher, n) == matchesFilters(n.entity, watcher.options.filters)

\* this step delivers a notification of this kind to the watchers
Delivers(eventType) ==
    /\ Len(feed') = Len(feed) + 1
    /\ feed'[Len(feed')].eventType = eventType

\* C17 (FeedSpec): the first watcher, registered with an onCancelled handler
\* and not unsubscribed, has seen an RFQ created; the RFQ has since been
\* cancelled by a cancelRFQ that returned, and the store has notified the
\* watchers of the updated record, which matches the watcher's filters.
\* Then onCancelled has been called with the cancelled record, whose id is
\* the created record's.
C17_CancelledHandlerFires ==
    \A i \in 1..Len(watchers), c1 \in CallIds, c2 \in CallIds, k1 \in 1..Len(feed), k2 \in 1..Len(feed) :
        (/\ watchers[i].watch = 1
         /\ "onCancelled" \in watchers[i].handlers
         /\ calls[c1].op = "createRFQ"
         /\ Succeeded(calls[c1])
         /\ calls[c2].op = "cancelRFQ"
         /\ Succeeded(calls[c2])
         /\ calls[c2].id = calls[c1].id
         /\ feed[k1].eventType = "created"
         /\ entityToRFQ(feed[k1].entity) = calls[c1].outcome.value
         /\ k1 < k2
         /\ feed[k2].eventType = "updated"
         /\ entityToRFQ(feed[k2].entity) = calls[c2].outcome.value
         /\ Reaches(watchers[i], feed[k2]))
            => \E k \in 1..Len(feed) : \E j \in 1..Len(feed[k].called) :
                /\ feed[k].called[j].watch = 1
                /\ feed[k].called[j].handler = "onCancelled"
                /\ feed[k].called[j].rfq = calls[c2].outcome.value
                /\ feed[k].called[j].rfq.status = "CANCELLED"
                /\ feed[k].called[j].rfq.id = calls[c1].outcome.value.id

\* a watcher with onCancelled alone saw nothing of the RFQ created and then
\* cancelled: not on the writes, not on the 'updated' notification
C17_CancelledNeverDelivered ==
    /\ Len(watchers) = 1
    /\ watchers[1].watch = 1
    /\ watchers[1].handlers = {"onCancelled"}
    /\ watchers[1].options.filters = NoFilters
    /\ calls[1].op = "createRFQ"
    /\ Succeeded(calls[1])
    /\ calls[2].op = "cancelRFQ"
    /\ Succeeded(calls[2])
    /\ calls[2].id = calls[1].id
    /\ Len(feed) = 3
    /\ feed[3].eventType = "updated"
    /\ entityToRFQ(feed[3].entity) = calls[2].outcome.value
    /\ \A k \in 1..Len(feed) : feed[k].called = <<>>

\* the handler the change feed is to call for an updated record
ClassifiedHandler(handlers, status) ==
    IF status = "CANCELLED" /\ "onCancelled" \in handlers THEN <<"onCancelled">>
    ELSE IF status = "FILLED" /\ "onFilled" \in handlers THEN <<"onFilled">>
    ELSE IF "onUpdated" \in handlers THEN <<"onUpdated">>
    ELSE <<>>

\* C18 (FeedSpec): when the store notifies the watchers of an updated record,
\* each watcher whose filters the record matches, whatever combination of
\* handlers it was registered with, has the handler of the classification
\* called, once, with the mapped record, and no other handler: onCancelled
\* for CANCELLED if registered, onFilled for FILLED if registered, and
\* otherwise onUpdated if registered.
C18_UpdateClassified ==
    [][Delivers("updated")
        => LET n == feed'[Len(feed')] IN
           \A i \in 1..Len(watchers) :
                Reaches(watchers[i], n) =>
                CallsTo(watchers[i].watch, n) =
                    [j \in 1..Len(ClassifiedHandler(watchers[i].handlers, n.entity.data.status)) |->
                        [watch |-> watchers[i].watch,
                         handler |-> ClassifiedHandler(watchers[i].handlers, n.entity.data.status)[j],
                         rfq |-> entityToRFQ(n.entity)]]]_vars

\* a watcher with onFilled alone was notified of the update of a filled RFQ
\* and no handler was called
C18_FilledNotClassified ==
    /\ Len(watchers) = 1
    /\ watchers[1].handlers = {"onFilled"}
    /\ watchers[1].options.filters = NoFilters
    /\ feed # <<>>
    /\ feed[Len(feed)].eventType = "updated"
    /\ feed[Len(feed)].entity.data.status = "FILLED"
    /\ feed[Len(feed)].called = <<>>

\* C19 (FeedSpec): when the store notifies the watchers of a created record,
\* each watcher registered with onCreated has onCreated called, once, with
\* the mapped RFQ if the record matches the watcher's filters and its status
\* is OPEN, and has no handler called if not; the writeEntity of createRFQ,
\* when the store does it, notifies the watchers of the created record; and
\* when createRFQ returns, onCreated of each watcher whose filters the
\* record matches has been called, in the last notification, with the RFQ
\* that createRFQ returns.
C19_CreatedFiresIffOpen ==
    [][/\ Delivers("created")
            => LET n == feed'[Len(feed')] IN
               \A i \in 1..Len(watchers) :
                    "onCreated" \in watchers[i].handlers
                        => CallsTo(watchers[i].watch, n) =
                            IF Reaches(watchers[i], n) /\ n.entity.data.status = "OPEN"
                            THEN <<[watch |-> watchers[i].watch,
                                    handler |-> "onCreated",
                                    rfq |-> entityToRFQ(n.entity)]>>
                            ELSE <<>>
       /\ \A c \in CallIds :
            CreateWrites(c)
                => \A i \in 1..Len(watchers) :
                    (/\ "onCreated" \in watchers[i].handlers
                     /\ matchesFilters(calls'[c].awaited.value, watchers[i].options.filters))
                        => /\ Delivers("created")
                           /\ \E j \in 1..Len(feed'[Len(feed')].called) :
                                LET called == feed'[Len(feed')].called[j] IN
                                /\ called.watch = watchers[i].watch
                                /\ called.handler = "onCreated"
                                /\ called.rfq.id = calls'[c].id
                                /\ called.rfq = entityToRFQ(calls'[c].awaited.value)
       /\ \A c \in CallIds :
            CreateReturns(c)
                => \A i \in 1..Len(watchers) :
                    (/\ "onCreated" \in watchers[i].handlers
                     /\ matchesFilters(calls[c].awaited.value, watchers[i].options.filters))
                        => /\ feed # <<>>
                           /\ feed' = feed
                           /\ feed[Len(feed)].eventType = "created"
                           /\ \E j \in 1..Len(feed[Len(feed)].called) :
                                LET called == feed[Len(feed)].called[j] IN
                                /\ called.watch = watchers[i].watch
                                /\ called.handler = "onCreated"
                                /\ called.rfq.id = calls'[c].outcome.value.id
                                /\ called.rfq = calls'[c].outcome.value]_vars

\* the watcher had its onCreated called with the RFQ createRFQ returned, and
\* was not called when the cancelled record was written
C19_CreatedSeenCancelledNot ==
    /\ Len(watchers) = 1
    /\ "onCreated" \in watchers[1].handlers
    /\ calls[1].op = "createRFQ"
    /\ Succeeded(calls[1])
    /\ Len(feed) = 2
    /\ feed[1].eventType = "created"
    /\ feed[1].called = <<[watch |-> watchers[1].watch, handler |-> "onCreated", rfq |-> calls[1].outcome.value]>>
    /\ feed[2].eventType = "created"
    /\ feed[2].entity.data.status = "CANCELLED"
    /\ feed[2].called = <<>>

\* this step is a call of the store's clear()
StoreCleared ==
    /\ entities' = <<>>
    /\ watchers' = <<>>
    /\ UNCHANGED <<signer, now, calls, faults, feed, unsubscribed>>

\* the watchers, without the one of the watchRFQs call `watch`
WatchersBut(watch) ==
    LET Other(watcher) == watcher.watch # watch IN SelectSeq(watchers, Other)

\* C20 (FeedSpec): no handler is called for a watcher whose unsubscribe
\* function has been called; a call of the unsubscribe function removes that
\* watcher and leaves the other watchers, the store, the calls and the
\* handlers called as they are, and a second call changes nothing; and a
\* watcher is registered by its watchRFQs call, stays registered in every
\* step but a call of its unsubscribe function or of the store's clear(),
\* and is called on every notification that matches its filters and that
\* its handlers are for.
C20_UnsubscribeStopsDispatch ==
    [][/\ Len(unsubscribed') > Len(unsubscribed)
            => \E j \in 1..Len(watchers') : watchers'[j].watch = Len(unsubscribed')
       /\ \A i \in 1..Len(watchers) :
            unsubscribed'[watchers[i].watch] = unsubscribed[watchers[i].watch]
                => \/ \E j \in 1..Len(watchers') : watchers'[j] = watchers[i]
                   \/ StoreCleared
       /\ Len(feed') > Len(feed)
            => LET n == feed'[Len(feed')] IN
               /\ \A j \in 1..Len(n.called) :
                    /\ n.called[j].watch \in DOMAIN unsubscribed
                    /\ unsubscribed[n.called[j].watch] = 0
               /\ \A i \in 1..Len(watchers) :
                    /\ (/\ n.eventType = "created"
                        /\ n.entity.data.status = "OPEN"
                        /\ Reaches(watchers[i], n)
                        /\ "onCreated" \in watchers[i].handlers)
                            => Len(CallsTo(watchers[i].watch, n)) = 1
                    /\ (/\ n.eventType = "updated"
                        /\ Reaches(watchers[i], n)
                        /\ "onUpdated" \in watchers[i].handlers)
                            => Len(CallsTo(watchers[i].watch, n)) = 1
       /\ \A w \in DOMAIN unsubscribed :
            unsubscribed'[w] # unsubscribed[w]
                => /\ watchers' = WatchersBut(w)
                   /\ unsubscribed[w] >= 1 => watchers' = watchers
                   /\ UNCHANGED <<entities, signer, calls, feed>>]_vars

\* both watchers saw the first RFQ created; the first watcher's unsubscribe
\* function was then called twice, and the second RFQ was seen by the second
\* watcher alone
C20_OtherWatcherStillCalled ==
    /\ unsubscribed = <<2, 0>>
    /\ Len(watchers) = 1
    /\ watchers[1].watch = 2
    /\ Len(feed) = 2
    /\ Len(CallsTo(1, feed[1])) = 1
    /\ Len(CallsTo(2, feed[1])) = 1
    /\ CallsTo(1, feed[2]) = <<>>
    /\ Len(CallsTo(2, feed[2])) = 1
    /\ feed[2].called[1].handler = "onCreated"

\* the RFQs a successful queryRFQs returned, as a set
ReturnedRFQs(call) ==
    {call.outcome.value.rfqs[i] : i \in 1..Len(call.outcome.value.rfqs)}

\* the limit the query was made with: pagination.limit, and the default
\* page limit when none or 0 is given
LimitAsked(call) ==
    IF \/ call.input.pagination = {}
       \/ (CHOOSE g \in call.input.pagination : TRUE).limit \in {{}, {0}}
    THEN DEFAULT_PAGE_LIMIT
    ELSE CHOOSE n \in (CHOOSE g \in call.input.pagination : TRUE).limit : TRUE

\* the number of RFQs on the page of a query of this limit that total RFQs
\* match: the first limit of them; with a negative limit, all but the last
\* -limit of them
PageLength(limit, total) ==
    IF limit < 0 THEN Max(total + limit, 0) ELSE Min(limit, total)

\* the stored RFQs whose tokens are those of the token pair
OfTokenPair(tokenPair) ==
    {entityToRFQ(entities[k]) : k \in {key \in DOMAIN entities :
        /\ entities[key].data.baseToken.address = tokenPair.base.address
        /\ entities[key].data.baseToken.chainId = tokenPair.base.chainId
        /\ entities[key].data.quoteToken.address = tokenPair.quote.address
        /\ entities[key].data.quoteToken.chainId = tokenPair.quote.chainId}}

\* a queryRFQs with a token-pair filter that has returned
TokenPairQueried(call) ==
    /\ call.op = "queryRFQs"
    /\ Succeeded(call)
    /\ call.input.filters # {}
    /\ (CHOOSE f \in call.input.filters : TRUE).tokenPair # {}

\* the token pair of its filter
TokenPairAsked(call) ==
    CHOOSE t \in (CHOOSE f \in call.input.filters : TRUE).tokenPair : TRUE

\* C21 as stated: a queryRFQs with a token-pair filter that has returned
\* returns exactly the stored RFQs whose baseToken and quoteToken have the
\* filter's addresses and chainIds, and total is their number.
C21_TokenPairReturnsAll ==
    \A c \in CallIds :
        TokenPairQueried(calls[c])
            => /\ ReturnedRFQs(calls[c]) = OfTokenPair(TokenPairAsked(calls[c]))
               /\ Len(calls[c].outcome.value.rfqs) = Cardinality(OfTokenPair(TokenPairAsked(calls[c])))
               /\ calls[c].outcome.value.total = Cardinality(OfTokenPair(TokenPairAsked(calls[c])))

\* C21 (QuerySpec): a queryRFQs with a token-pair filter that has returned
\* gives as total the number of stored RFQs whose baseToken and quoteToken
\* have the filter's addresses and chainIds, and returns RFQs of those only,
\* each once, and of those the ones that come first in the order of the
\* sort: as many as the limit asked (pagination.limit, or 50 when none or 0
\* is given), all of them when they are no more than the limit, and with a
\* negative limit all but the last -limit of them.
C21_TokenPairPage ==
    \A c \in CallIds :
        TokenPairQueried(calls[c])
            => LET matches == OfTokenPair(TokenPairAsked(calls[c]))
                   result == calls[c].outcome.value
                   sort == buildArkivSort(calls[c].input.sort)
               IN  /\ result.total = Cardinality(matches)
                   /\ ReturnedRFQs(calls[c]) \subseteq matches
                   /\ Cardinality(ReturnedRFQs(calls[c])) = Len(result.rfqs)
                   /\ Len(result.rfqs) = PageLength(LimitAsked(calls[c]), result.total)
                   /\ (LimitAsked(calls[c]) >= result.total) => ReturnedRFQs(calls[c]) = matches
                   /\ \A returned \in ReturnedRFQs(calls[c]), left \in matches \ ReturnedRFQs(calls[c]) :
                        IF sort.order = "asc"
                        THEN ~(getNestedValue(returned, sort.field) > getNestedValue(left, sort.field))
                        ELSE ~(getNestedValue(returned, sort.field) < getNestedValue(left, sort.field))

\* of the RFQs stored, alice's and bob's, the query for alice's token pair
\* returned hers alone, with total 1
C21_OneOfSeveralReturned ==
    /\ getEntityCount(entities) >= 2
    /\ \E c \in CallIds :
        /\ calls[c].op = "queryRFQs"
        /\ Succeeded(calls[c])
        /\ calls[c].input.filters = {filterByTokenPair(TokenBase.address, TokenBase.chainId, TokenQuote.address, TokenQuote.chainId).value}
        /\ calls[c].outcome.value.rfqs = <<EarlierRFQ>>
        /\ calls[c].outcome.value.total = 1

\* the stored RFQs created by the account of this address
CreatedBy(address) ==
    {entityToRFQ(entities[k]) : k \in {key \in DOMAIN entities :
        toLowerCase(entities[key].data.creator) = toLowerCase(address)}}

\* C22 (QuerySpec): a queryRFQs(filterByCreator(A)) that has returned, no
\* limit being asked and the store holding no more RFQs than a page of the
\* default limit, returns the stored RFQs created by the signer of address A,
\* all of them and no other, whatever the case of the letters of A.
C22_CreatorFilterFindsAll ==
    \A c \in CallIds :
        (/\ calls[c].op = "queryRFQs"
         /\ Succeeded(calls[c])
         /\ calls[c].input.pagination = {}
         /\ getEntityCount(entities) <= DEFAULT_PAGE_LIMIT
         /\ calls[c].input.filters # {}
         /\ (CHOOSE f \in calls[c].input.filters : TRUE).creator # {})
            => LET address == CHOOSE a \in (CHOOSE f \in calls[c].input.filters : TRUE).creator : TRUE IN
               /\ ReturnedRFQs(calls[c]) = CreatedBy(address)
               /\ calls[c].outcome.value.total = Cardinality(CreatedBy(address))

\* alice created an RFQ, her wallet giving her address with upper-case
\* letters, and her query by that very address found nothing
C22_OwnRFQNotFound ==
    /\ calls[1].op = "createRFQ"
    /\ Succeeded(calls[1])
    /\ calls[1].signerAddress = AddrAlice
    /\ calls[1].id \in DOMAIN entities
    /\ entities[calls[1].id].data.creator = AddrAlice
    /\ calls[2].op = "queryRFQs"
    /\ Succeeded(calls[2])
    /\ calls[2].input.filters = {filterByCreator(AddrAlice).value}
    /\ calls[2].outcome.value.rfqs = <<>>
    /\ calls[2].outcome.value.total = 0

\* C23 (QuerySpec): in the result a queryRFQs returned, hasMore is true
\* exactly when the response of queryEntities carried a nextCursor, nextCursor
\* is the response's, and total is the response's total.
C23_HasMoreIffCursor ==
    \A c \in CallIds :
        (calls[c].op = "queryRFQs" /\ Succeeded(calls[c]))
            => LET result == calls[c].outcome.value
                   response == calls[c].response
               IN  /\ result.hasMore <=> response.nextCursor # {}
                   /\ result.nextCursor = response.nextCursor
                   /\ result.hasMore => result.nextCursor = {"mock-cursor"}
                   /\ result.total = response.total
                   /\ Len(result.rfqs) = Len(response.entities)

\* two RFQs matched and one was asked for: the store gave a cursor and the
\* result says there is more
C23_MoreAfterFirstPage ==
    \E c \in CallIds :
        /\ calls[c].op = "queryRFQs"
        /\ Succeeded(calls[c])
        /\ calls[c].input.pagination = {[limit |-> {1}, cursor |-> {}]}
        /\ calls[c].response.total = 2
        /\ calls[c].response.nextCursor = {"mock-cursor"}
        /\ calls[c].outcome.value.hasMore
        /\ Len(calls[c].outcome.value.rfqs) = 1

\* the properties of an RFQ record
RFQKeys ==
    {"id", "creator", "baseToken", "quoteToken", "baseAmount", "quoteAmount", "expiresIn",
     "status", "createdAt", "updatedAt", "filledAmount", "fills", "minFillAmount",
     "counterpartyRestrictions"}

\* C24: every writeEntity that createRFQ, updateRFQ or cancelRFQ invokes, the
\* first and each one after a backoff, whether the store refuses it or does
\* it, carries the signature that the wallet gave
\* in this call for the serialization of the data object it carries; the data
\* is the whole record, for an update the record read with the updates merged
\* in, and its updatedAt is the time read in this call; a writeEntity that
\* the store does stores that data.
C24_WriteCarriesFreshSignature ==
    [][\A c \in CallIds :
        Invokes(c, "writeEntity")
            => LET call == calls'[c]
                   options == WriteOptions(call)
               IN  /\ call.op \in {"createRFQ", "updateRFQ", "cancelRFQ"}
                   /\ options.signature # Null
                   /\ options.signature.message = Stringify(options.data)
                   /\ options.signature.signedBy = call.using.name
                   /\ call.using # NoSigner
                   /\ DOMAIN options.data = RFQKeys
                   /\ options.entityKey = options.data.id
                   /\ options.data.updatedAt \in call.startedAt..now
                   /\ options.signature.message.updatedAt = options.data.updatedAt
                   /\ call.op # "createRFQ"
                        => \A k \in RFQKeys \ {"updatedAt"} :
                            options.data[k] = IF k \in DOMAIN call.input
                                              THEN call.input[k]
                                              ELSE call.existingRFQ[k]
                   /\ call.op = "createRFQ"
                        => /\ options.data.createdAt = options.data.updatedAt
                           /\ options.data.status = "OPEN"
                   /\ call.awaited.state = "returned" <=> Commits(c)
                   /\ Commits(c)
                        => /\ entities'[options.entityKey].data = options.data
                           /\ call.awaited.value.data = options.data
                   /\ ~Commits(c) => entities' = entities]_vars

\* the update was written a second after it was signed, the first writeEntity
\* having failed: the signature is over the record with the new amount
C24_SignedUpdateWritten ==
    /\ calls[1].op = "updateRFQ"
    /\ Succeeded(calls[1])
    /\ calls[1].invoked.writeEntity = 2
    /\ calls[1].signature # Null
    /\ calls[1].signature.message = Stringify(entities[calls[1].id].data)
    /\ calls[1].signature.message.baseAmount # calls[1].existingRFQ.baseAmount
    /\ now > calls[1].data.updatedAt

\* ---------------------------------------------------------------------
\* watchRFQs when the store refuses the subscription
\* ---------------------------------------------------------------------

\* watchRFQs that lets the store's error through as it is
WatchFailureUnwrapped(storeError) == storeError

\* catch (error): new ArkivNetworkError('Failed to start watching RFQs', error)
WatchFailure(storeError) ==
    ArkivNetworkError(<<"F", "a", "i", "l", "e", "d", " ", "t", "o", " ", "s", "t", "a", "r", "t", " ", "w", "a", "t", "c", "h", "i", "n", "g", " ", "R", "F", "Q", "s">>,
                      storeError)

\* watchRFQs(options) is called, the store's watchEntities throws, having
\* registered nothing, and watchRFQs throws
WatchEntitiesThrows(c, optionsDrawn) ==
    /\ CanStart(c)
    /\ faults < MaxFaults
    /\ faults' = faults + 1
    /\ \E given \in optionsDrawn, storeError \in StoreErrors :
        calls' = [calls EXCEPT ![c] =
                    Finish([calls[c] EXCEPT !.op = "watchRFQs",
                                            !.input = given,
                                            !.startedAt = now,
                                            !.invoked.watchEntities = @ + 1],
                           Threw(WatchFailure(storeError)))]
    /\ UNCHANGED <<entities, signer, now, rt, watchers, feed, unsubscribed, ledger>>

WatchInit ==
    /\ entities = StoreOf(EarlierRFQ)
    /\ signer = NoSigner
    /\ now = StartTime
    /\ calls = [c \in CallIds |-> IdleCall]
    /\ faults = 0
    /\ rt = RtIdle
    /\ watchers = <<>>
    /\ feed = <<>>
    /\ unsubscribed = <<>>
    /\ ledger = NoLedger

WatchNext ==
    \/ watchRFQs(FewWatchOptions)
    \/ \E watch \in 1..MaxWatchers : unsubscribe(watch)
    \/ simulateEntityUpdate(StoredEntities)
    \/ clear
    \/ \E c \in CallIds : WatchEntitiesThrows(c, FewWatchOptions)

WatchSpec == WatchInit /\ [][WatchNext]_vars

\* ---------------------------------------------------------------------
\* The validators applied to drawn arguments
\* ---------------------------------------------------------------------

\* the longest amount drawn
MaxAmountLen == 3

\* characters of the amounts drawn: digits and others
AmountChars == {"0", "1", "9", "-", ".", " ", "a"}

RECURSIVE StringsUpTo(_, _)
StringsUpTo(chars, n) ==
    IF n = 0
    THEN {<<>>}
    ELSE LET shorter == StringsUpTo(chars, n - 1) IN
         shorter \cup {Append(s, ch) : s \in shorter, ch \in chars}

AmountsDrawn == StringsUpTo(AmountChars, MaxAmountLen)

AmountFieldNames ==
    {<<"b", "a", "s", "e", "A", "m", "o", "u", "n", "t">>,
     <<"q", "u", "o", "t", "e", "A", "m", "o", "u", "n", "t">>}

\* expiresIn values around the limits, clock being the time of the call
ExpirationsDrawn(clock) ==
    {0 - 1, 0, 1, clock - 1, clock, clock + 1, clock + 3600,
     clock + MaxExpirationWindow - 1, clock + MaxExpirationWindow,
     clock + MaxExpirationWindow + 1}

\* what a validator does: it returns undefined or throws a ValidationError
Validated(message) ==
    IF message = Valid THEN Returned(Undefined) ELSE Threw(ValidationError(message))

\* validateAmount(amount, fieldName) is called and ends
ValidateAmountCall(c) ==
    /\ calls[c].pc = "idle"
    /\ "amount" \in DOMAIN calls[c].input
    /\ calls' = [calls EXCEPT ![c] =
                    Finish([calls[c] EXCEPT !.op = "validateAmount", !.startedAt = now],
                           Validated(validateAmount(calls[c].input.amount,
                                                    calls[c].input.fieldName)))]
    /\ UNCHANGED <<entities, signer, now, faults, rt, watchers, feed, unsubscribed, ledger>>

\* validateExpiration(expiresIn) is called and ends
ValidateExpirationCall(c) ==
    /\ calls[c].pc = "idle"
    /\ "expiresIn" \in DOMAIN calls[c].input
    /\ calls' = [calls EXCEPT ![c] =
                    Finish([calls[c] EXCEPT !.op = "validateExpiration", !.startedAt = now],
                           Validated(validateExpiration(calls[c].input.expiresIn, now)))]
    /\ UNCHANGED <<entities, signer, now, faults, rt, watchers, feed, unsubscribed, ledger>>

\* filterByTokenPair(baseAddress, baseChainId, quoteAddress, quoteChainId)
\* is called and ends
FilterByTokenPairCall(c) ==
    /\ calls[c].pc = "idle"
    /\ "baseAddress" \in DOMAIN calls[c].input
    /\ calls' = [calls EXCEPT ![c] =
                    Finish([calls[c] EXCEPT !.op = "filterByTokenPair", !.startedAt = now],
                           filterByTokenPair(calls[c].input.baseAddress, calls[c].input.baseChainId,
                                             calls[c].input.quoteAddress, calls[c].input.quoteChainId))]
    /\ UNCHANGED <<entities, signer, now, faults, rt, watchers, feed, unsubscribed, ledger>>

\* filterByCreator(address) is called and ends
FilterByCreatorCall(c) ==
    /\ calls[c].pc = "idle"
    /\ "address" \in DOMAIN calls[c].input
    /\ calls' = [calls EXCEPT ![c] =
                    Finish([calls[c] EXCEPT !.op = "filterByCreator", !.startedAt = now],
                           filterByCreator(calls[c].input.address))]
    /\ UNCHANGED <<entities, signer, now, faults, rt, watchers, feed, unsubscribed, ledger>>

\* addresses and strings that are none: the empty string, one without 0x,
\* one a digit short, one with a letter that is no hex digit
AddressesDrawn ==
    {AddrAlice, AddrAliceLower, TokenBase.address,
     <<>>,
     Rep("1", 2 + AddressHexLen),
     SubSeq(AddrBob, 1, 1 + AddressHexLen),
     <<"0", "x">> \o Rep("g", AddressHexLen)}

ValidatorArguments(clock) ==
    {[amount |-> amount, fieldName |-> fieldName] :
        amount \in AmountsDrawn, fieldName \in AmountFieldNames}
    \cup {[expiresIn |-> expiresIn] : expiresIn \in ExpirationsDrawn(clock)}
    \cup {[baseAddress |-> baseAddress, baseChainId |-> 1, quoteAddress |-> quoteAddress, quoteChainId |-> chainId] :
                baseAddress \in AddressesDrawn, quoteAddress \in AddressesDrawn, chainId \in {1, 5}}
    \cup {[address |-> address] : address \in AddressesDrawn}

ValidatorInit ==
    /\ entities = <<>>
    /\ signer = NoSigner
    /\ now \in StartTime..(StartTime + MaxTicks)
    /\ \E arguments \in ValidatorArguments(now) :
        calls = [c \in CallIds |->
                    IF c = 1 THEN [IdleCall EXCEPT !.input = arguments] ELSE IdleCall]
    /\ faults = 0
    /\ rt = RtIdle
    /\ watchers = <<>>
    /\ feed = <<>>
    /\ unsubscribed = <<>>
    /\ ledger = NoLedger

ValidatorNext ==
    \/ ValidateAmountCall(1)
    \/ ValidateExpirationCall(1)
    \/ FilterByTokenPairCall(1)
    \/ FilterByCreatorCall(1)

ValidatorSpec == ValidatorInit /\ [][ValidatorNext]_vars

\* the number a string of decimal digits denotes
RECURSIVE DecimalValue(_)
DecimalValue(digits) ==
    IF digits = <<>>
    THEN 0
    ELSE 10 * DecimalValue(SubSeq(digits, 1, Len(digits) - 1))
         + (CHOOSE d \in 0..9 : DigitChar[d + 1] = digits[Len(digits)])

\* C25: validateAmount returns for a non-empty string of decimal digits that
\* denotes a number greater than zero, and throws a ValidationError for every
\* other string: the empty one, one with a character that is no digit, and
\* one that denotes zero.
C25_OnlyPositiveAmountsAccepted ==
    \A c \in CallIds :
        (calls[c].pc = "done" /\ calls[c].op = "validateAmount")
            => LET amount == calls[c].input.amount
                   positive == /\ amount # <<>>
                               /\ \A i \in 1..Len(amount) : amount[i] \in Digits
                               /\ DecimalValue(amount) > 0
               IN  IF positive
                   THEN Succeeded(calls[c])
                   ELSE Failed(calls[c], "ValidationError")

\* '00' denotes zero and validateAmount returns
C25_DoubleZeroAccepted ==
    /\ calls[1].op = "validateAmount"
    /\ calls[1].input.amount = <<"0", "0">>
    /\ Succeeded(calls[1])

\* C26: validateExpiration returns for an integer expiresIn when
\* now < expiresIn <= now + 30 * 24 * 3600, now being the second of the call,
\* and throws a ValidationError for every other integer.
C26_ExpirationWindow ==
    \A c \in CallIds :
        (calls[c].pc = "done" /\ calls[c].op = "validateExpiration")
            => LET expiresIn == calls[c].input.expiresIn IN
               IF now < expiresIn /\ expiresIn <= now + 30 * 24 * 3600
               THEN Succeeded(calls[c])
               ELSE Failed(calls[c], "ValidationError")

\* the last second of the window was accepted
C26_LastSecondAccepted ==
    /\ calls[1].op = "validateExpiration"
    /\ calls[1].input.expiresIn = now + 2592000
    /\ Succeeded(calls[1])

\* the properties no UpdateRFQInput names
ImmutableKeys == {"id", "creator", "baseToken", "quoteToken", "createdAt"}

\* C27 (FrameSpec): whatever updateRFQ and cancelRFQ calls have been made on
\* the RFQ the store holds, its id, creator, baseToken, quoteToken and
\* createdAt are those createRFQ set; and a write of updateRFQ or cancelRFQ
\* changes no property of the stored record other than those the update
\* input names and updatedAt.
C27_UpdateFrame ==
    [][/\ EarlierId \in DOMAIN entities'
       /\ \A k \in ImmutableKeys : entities'[EarlierId].data[k] = EarlierRFQ[k]
       /\ \A c \in CallIds :
            (/\ calls[c].op \in {"updateRFQ", "cancelRFQ"}
             /\ Commits(c)
             /\ calls[c].id \in DOMAIN entities)
                => LET before == entities[calls[c].id].data
                       after == entities'[calls[c].id].data
                   IN  /\ DOMAIN entities' = DOMAIN entities
                       /\ \A other \in DOMAIN entities \ {calls[c].id} :
                            entities'[other] = entities[other]
                       /\ DOMAIN after = DOMAIN before
                       /\ \A k \in ImmutableKeys : after[k] = before[k]
                       /\ \A k \in DOMAIN before :
                            after[k] # before[k]
                                => k \in DOMAIN calls[c].input \cup {"updatedAt"}]_vars

\* alice updated her RFQ with an object that has a creator property: the
\* stored RFQ has bob as its creator, and her cancelRFQ of it was refused
C27_CreatorReplaced ==
    /\ calls[1].op = "updateRFQ"
    /\ Succeeded(calls[1])
    /\ calls[1].input = [baseAmount |-> <<"7">>, creator |-> AddrBob]
    /\ calls[1].existingRFQ.creator = AddrAlice
    /\ calls[1].signerAddress = AddrAlice
    /\ entities[EarlierId].data.creator = AddrBob
    /\ entities[EarlierId].data.baseAmount = <<"7">>
    /\ calls[2].op = "cancelRFQ"
    /\ Failed(calls[2], "OwnershipError")
    /\ entities[EarlierId].data.status = "OPEN"

\* C28: the id that a successful createRFQ returns is the key of no entity
\* that the store held before the write, so that no two successful createRFQ
\* calls return the same id and no createRFQ replaces a stored record.
C28_CreatedIdIsFresh ==
    [][\A c \in CallIds :
            /\ CreateWrites(c)
                => /\ calls'[c].id \notin DOMAIN entities
                   /\ \A id \in DOMAIN entities : entities'[id] = entities[id]
            /\ CreateReturns(c) => calls'[c].outcome.value.id = calls[c].id]_vars

\* createRFQ returned the id of the RFQ that the same account had created in
\* the same second, and the store holds the new record in place of that one
C28_CreateReplacedEarlier ==
    /\ calls[1].op = "createRFQ"
    /\ Succeeded(calls[1])
    /\ calls[1].outcome.value.id = EarlierId
    /\ calls[1].outcome.value.createdAt = EarlierRFQ.createdAt
    /\ DOMAIN entities = {EarlierId}
    /\ entities[EarlierId].data = calls[1].outcome.value
    /\ entities[EarlierId].data # EarlierRFQ

\* createRFQ returned with the store holding one entity, as before the call:
\* the generated id was that of the stored RFQ
C5_CreatedOverEarlier ==
    /\ calls[1].op = "createRFQ"
    /\ Succeeded(calls[1])
    /\ calls[1].startedAt = StartTime
    /\ calls[1].id = EarlierId
    /\ getEntityCount(entities) = 1

\* C29: when the store's watchEntities throws in watchRFQs, watchRFQs throws
\* at once an ArkivNetworkError 'Failed to start watching RFQs' whose
\* originalError is what the store threw; watchEntities was invoked once,
\* nothing was retried or slept, and the watchers registered are those that
\* were registered before the call.
C29_WatchFailureSurfaced ==
    [][\A c \in CallIds :
        (calls[c].pc = "idle" /\ calls'[c].op = "watchRFQs")
            => /\ Failed(calls'[c], "ArkivNetworkError")
               /\ calls'[c].outcome.error.message =
                    <<"N", "e", "t", "w", "o", "r", "k", " ", "e", "r", "r", "o", "r", ":", " ", "F", "a", "i", "l", "e", "d", " ", "t", "o", " ", "s", "t", "a", "r", "t", " ", "w", "a", "t", "c", "h", "i", "n", "g", " ", "R", "F", "Q", "s">>
               /\ calls'[c].outcome.error.originalError \in StoreErrors
               /\ calls'[c].invoked = [NoStoreCalls EXCEPT !.watchEntities = 1]
               /\ calls'[c].r = calls[c].r
               /\ calls'[c].r.attempt = 0
               /\ now' = now
               /\ rt' = rt
               /\ watchers' = watchers
               /\ unsubscribed' = unsubscribed
               /\ feed' = feed]_vars

\* a second watchRFQs failed; the watcher of the first is the only one
\* registered and has since been notified of an update
C29_FailedBesideWatcher ==
    /\ calls[1].op = "watchRFQs"
    /\ Failed(calls[1], "ArkivNetworkError")
    /\ calls[1].outcome.error.originalError \in StoreErrors
    /\ Len(watchers) = 1
    /\ Len(unsubscribed) = 1
    /\ feed # <<>>

\* ---------------------------------------------------------------------
\* An RFQ written to the store and mapped back
\* ---------------------------------------------------------------------

\* a Fill
FillDrawn ==
    [acceptor |-> AddrBob, amount |-> <<"5", "0", "0">>, timestamp |-> StartTime + 1,
     txHash |-> <<"0", "x", "a", "1">>]

\* the RFQ alice created earlier with a minFillAmount and a counterparty
\* restriction
RestrictedRFQ ==
    CreateData([ValidInput(StartTime) EXCEPT !.minFillAmount = {<<"5", "0", "0">>},
                                             !.counterpartyRestrictions = {<<AddrBob>>}],
               generateRFQId(AddrAlice, StartTime, <<"z", "9", "q">>), AddrAlice, StartTime)

\* UpdateRFQInput: a fill that fills the RFQ, a fill that leaves it open, a
\* cancellation, other amounts and another expiration
RoundTripUpdates ==
    {[status |-> "FILLED", filledAmount |-> <<"5", "0", "0">>, fills |-> <<FillDrawn>>],
     [filledAmount |-> <<"5", "0", "0">>, fills |-> <<FillDrawn>>],
     [status |-> "CANCELLED"],
     [baseAmount |-> <<"7">>, quoteAmount |-> <<"9">>, expiresIn |-> StartTime + 7200]}

\* RoundTripSpec: while watchers are registered, a client writes RFQ records
\* to the store by createRFQ and updateRFQ, which map the entity written
\* back, and reads them with getRFQ, which maps the entity stored; one call
\* after another, the store not failing.
RoundTripInit ==
    /\ entities \in {<<>>, StoreOf(EarlierRFQ), StoreOf(RestrictedRFQ)}
    /\ signer \in {s \in Signers : s.address = AddrAlice}
    /\ now = StartTime
    /\ calls = [c \in CallIds |-> IdleCall]
    /\ faults = MaxFaults
    /\ rt = RtIdle
    /\ watchers = <<>>
    /\ feed = <<>>
    /\ unsubscribed = <<>>
    /\ ledger = NoLedger

RoundTripNext ==
    \/ NoCallInFlight /\ watchRFQs(HandlersOnly({Handlers}))
    \/ NoCallInFlight /\ \E c \in CallIds : createRFQ(c, ValidInputs(now))
    \/ NoCallInFlight /\ \E c \in CallIds : updateRFQ(c, StoredIds, RoundTripUpdates)
    \/ NoCallInFlight /\ \E c \in CallIds : getRFQ(c, StoredIds)
    \/ \E c \in CallIds : GetEntityReturns(c)
    \/ \E c \in CallIds : GetAddressReturns(c)
    \/ \E c \in CallIds : SignMessageReturns(c)
    \/ \E c \in CallIds : WriteEntityReturns(c)

RoundTripSpec == RoundTripInit /\ [][RoundTripNext]_vars

\* the call wrote an RFQ record, calls[c].data, to the store and has returned
WroteRFQ(call) ==
    /\ call.op \in {"createRFQ", "updateRFQ"}
    /\ Succeeded(call)

\* C30 (RoundTripSpec): the RFQ that createRFQ or updateRFQ maps back with
\* entityToRFQ from the entity that writeEntity returns is the RFQ record
\* written as the entity's data, property by property; and so is the RFQ
\* that a getRFQ of its id maps from the entity stored, when it is made next.
C30_RoundTrip ==
    /\ \A c \in CallIds :
        WroteRFQ(calls[c])
            => LET r == calls[c].data
                   back == calls[c].outcome.value
               IN  /\ DOMAIN r = RFQKeys
                   /\ DOMAIN back = RFQKeys
                   /\ \A k \in RFQKeys : back[k] = r[k]
    /\ (/\ WroteRFQ(calls[1])
        /\ calls[2].op = "getRFQ"
        /\ Succeeded(calls[2])
        /\ calls[2].id = calls[1].id)
            => /\ calls[2].outcome.value # Null
               /\ DOMAIN calls[2].outcome.value = RFQKeys
               /\ \A k \in RFQKeys : calls[2].outcome.value[k] = calls[1].data[k]
               /\ entities[calls[1].id].data = calls[1].data

\* an RFQ with a minFillAmount and a counterparty restriction was written
\* FILLED with a fill, a watcher being notified of the write, and getRFQ
\* then returned it with these properties
C30_FilledRFQMappedBack ==
    /\ calls[1].op = "updateRFQ"
    /\ Succeeded(calls[1])
    /\ calls[1].data.status = "FILLED"
    /\ calls[1].data.fills = <<FillDrawn>>
    /\ Len(feed) = 1
    /\ feed[1].eventType = "created"
    /\ feed[1].entity.data = calls[1].data
    /\ calls[2].op = "getRFQ"
    /\ Succeeded(calls[2])
    /\ calls[2].outcome.value.status = "FILLED"
    /\ Len(calls[2].outcome.value.fills) = 1
    /\ calls[2].outcome.value.minFillAmount # {}
    /\ calls[2].outcome.value.counterpartyRestrictions # {}

\* ---------------------------------------------------------------------
\* RFQSettlement
\* ---------------------------------------------------------------------

\* the largest of the small amounts drawn
MaxTokens == 1

\* transactions sent to RFQSettlement in one behaviour
MaxTransactions == 1

\* transactions sent to the tokens (approve, mint, transfer, transferFrom) in one behaviour
MaxTokenCalls == 2

\* what setUp mints to the creator and to the acceptor, in tokens (10 ** 18
\* units)
CreatorMinted == 1000

AcceptorMinted == 2000

\* what the constructor of MockERC20 mints to the account that deploys it
DeployerMinted == 1000000

\* address(0)
ZeroAddress == "0x0"

\* the accounts of setUp
Parties == {"creator", "acceptor"}

\* the test contract, which deploys the tokens and RFQSettlement
Deployer == "deployer"

\* address(settlement)
Settlement == "settlement"

\* the accounts that hold tokens
Accounts == Parties \cup {Deployer, Settlement}

\* the accounts that send transactions to the tokens
Senders == Parties \cup {Deployer}

\* the tokens of setUp
Tokens == {"BASE", "QUOTE"}

\* what a call leaves when it reverts: the state it found, and the reason
Reverted(l, reason) == [reverted |-> TRUE, reason |-> reason, ledger |-> l]

Done(l) == [reverted |-> FALSE, reason |-> <<>>, ledger |-> l]

\* IERC20(token).allowance(owner, address(this))
allowance(l, token, owner) == l.allowances[token][owner][Settlement]

balanceOf(l, token, account) == l.balances[token][account]

\* token.approve(spender, value), sent by owner
approve(l, token, owner, spender, value) ==
    [l EXCEPT !.allowances[token][owner][spender] = value]

\* MockERC20(token).mint(to, amount)
mint(l, token, to, amount) == [l EXCEPT !.balances[token][to] = @ + amount]

\* token.transfer(to, value), sent by from: the balance of from is checked
\* and moved
transfer(l, token, from, to, value) ==
    IF balanceOf(l, token, from) < value
    THEN Reverted(l, <<"E", "R", "C", "2", "0", "I", "n", "s", "u", "f", "f", "i", "c", "i", "e", "n", "t", "B", "a", "l", "a", "n", "c", "e">>)
    ELSE LET debited == [l EXCEPT !.balances[token][from] = @ - value]
         IN  Done([debited EXCEPT !.balances[token][to] = @ + value])

\* token.transferFrom(from, to, value), sent by spender: the allowance that
\* from gave spender is spent, then the balance of from is checked and moved
transferFrom(l, token, spender, from, to, value) ==
    IF l.allowances[token][from][spender] < value
    THEN Reverted(l, <<"E", "R", "C", "2", "0", "I", "n", "s", "u", "f", "f", "i", "c", "i", "e", "n", "t", "A", "l", "l", "o", "w", "a", "n", "c", "e">>)
    ELSE LET moved == transfer([l EXCEPT !.allowances[token][from][spender] = @ - value],
                               token, from, to, value)
         IN  IF moved.reverted THEN Reverted(l, moved.reason) ELSE moved

\* IERC20(token).safeTransferFrom(from, to, value), called by RFQSettlement:
\* transferFrom with RFQSettlement as the spender
safeTransferFrom(l, token, from, to, value) ==
    transferFrom(l, token, Settlement, from, to, value)

\* the two transfers, the second on what the first left; a revert of either
\* reverts the transaction
TransferLegs(l, rfq, sender) ==
    LET first == safeTransferFrom(l, rfq.baseToken, rfq.creator, sender, rfq.baseAmount) IN
    IF first.reverted
    THEN Reverted(l, first.reason)
    ELSE LET second == safeTransferFrom(first.ledger, rfq.quoteToken, sender, rfq.creator,
                                        rfq.quoteAmount)
         IN  IF second.reverted
             THEN Reverted(l, second.reason)
             ELSE Done([second.ledger EXCEPT !.trades = @ + 1])

\* executeSwap(rfq) sent by sender: the requires in their order, the event,
\* the transfers
executeSwap(l, rfq, sender) ==
    IF rfq.creator = ZeroAddress
    THEN Reverted(l, <<"I", "n", "v", "a", "l", "i", "d", " ", "c", "r", "e", "a", "t", "o", "r", " ", "a", "d", "d", "r", "e", "s", "s">>)
    ELSE IF sender = ZeroAddress
    THEN Reverted(l, <<"I", "n", "v", "a", "l", "i", "d", " ", "a", "c", "c", "e", "p", "t", "o", "r", " ", "a", "d", "d", "r", "e", "s", "s">>)
    ELSE IF rfq.baseToken = ZeroAddress
    THEN Reverted(l, <<"I", "n", "v", "a", "l", "i", "d", " ", "b", "a", "s", "e", " ", "t", "o", "k", "e", "n", " ", "a", "d", "d", "r", "e", "s", "s">>)
    ELSE IF rfq.quoteToken = ZeroAddress
    THEN Reverted(l, <<"I", "n", "v", "a", "l", "i", "d", " ", "q", "u", "o", "t", "e", " ", "t", "o", "k", "e", "n", " ", "a", "d", "d", "r", "e", "s", "s">>)
    ELSE IF rfq.baseAmount = 0
    THEN Reverted(l, <<"B", "a", "s", "e", " ", "a", "m", "o", "u", "n", "t", " ", "m", "u", "s", "t", " ", "b", "e", " ", "g", "r", "e", "a", "t", "e", "r", " ", "t", "h", "a", "n", " ", "z", "e", "r", "o">>)
    ELSE IF rfq.quoteAmount = 0
    THEN Reverted(l, <<"Q", "u", "o", "t", "e", " ", "a", "m", "o", "u", "n", "t", " ", "m", "u", "s", "t", " ", "b", "e", " ", "g", "r", "e", "a", "t", "e", "r", " ", "t", "h", "a", "n", " ", "z", "e", "r", "o">>)
    ELSE IF sender = rfq.creator
    THEN Reverted(l, <<"C", "r", "e", "a", "t", "o", "r", " ", "c", "a", "n", "n", "o", "t", " ", "a", "c", "c", "e", "p", "t", " ", "t", "h", "e", "i", "r", " ", "o", "w", "n", " ", "R", "F", "Q">>)
    ELSE IF allowance(l, rfq.baseToken, rfq.creator) < rfq.baseAmount
    THEN Reverted(l, <<"I", "n", "s", "u", "f", "f", "i", "c", "i", "e", "n", "t", " ", "b", "a", "s", "e", " ", "t", "o", "k", "e", "n", " ", "a", "l", "l", "o", "w", "a", "n", "c", "e", " ", "f", "r", "o", "m", " ", "c", "r", "e", "a", "t", "o", "r">>)
    ELSE IF allowance(l, rfq.quoteToken, sender) < rfq.quoteAmount
    THEN Reverted(l, <<"I", "n", "s", "u", "f", "f", "i", "c", "i", "e", "n", "t", " ", "q", "u", "o", "t", "e", " ", "t", "o", "k", "e", "n", " ", "a", "l", "l", "o", "w", "a", "n", "c", "e", " ", "f", "r", "o", "m", " ", "a", "c", "c", "e", "p", "t", "o", "r">>)
    ELSE TransferLegs(l, rfq, sender)

\* amounts of tokens in the transactions: zero, small ones, and more than
\* the creator was minted
TokenAmounts == 0..MaxTokens \cup {AcceptorMinted}

\* the RFQ structs sent: the creator and the tokens may be address(0)
RFQStructs ==
    [id : {"rfq-1"},
     creator : Parties \cup {ZeroAddress},
     baseToken : Tokens \cup {ZeroAddress},
     quoteToken : Tokens \cup {ZeroAddress},
     baseAmount : TokenAmounts,
     quoteAmount : TokenAmounts]

\* a revert as the sender of the transaction sees it
RevertError(reason) == [name |-> "Error", message |-> reason, originalError |-> NoError]

\* a transaction calling executeSwap(rfq) is sent by sender and mined
ExecuteSwap(c) ==
    /\ calls[c].op \in {"none", "executeSwap"}
    /\ ledger.transactions < MaxTransactions
    /\ \E rfq \in RFQStructs, sender \in Parties :
        LET result == executeSwap(ledger, rfq, sender) IN
        /\ ledger' = [result.ledger EXCEPT !.transactions = @ + 1]
        /\ calls' = [calls EXCEPT ![c] =
                Finish([IdleCall EXCEPT !.op = "executeSwap",
                                        !.input = [rfq |-> rfq, sender |-> sender]],
                       IF result.reverted
                       THEN Threw(RevertError(result.reason))
                       ELSE Returned(Undefined))]
    /\ UNCHANGED <<entities, signer, now, faults, rt, watchers, feed, unsubscribed>>

\* a transaction calling token.approve(spender, value) is sent by owner and
\* mined
Approve ==
    /\ ledger.tokenCalls < MaxTokenCalls
    /\ \E token \in Tokens, owner \in Senders, spender \in Accounts, value \in TokenAmounts :
        ledger' = [approve(ledger, token, owner, spender, value) EXCEPT !.tokenCalls = @ + 1]
    /\ UNCHANGED <<entities, signer, now, calls, faults, rt, watchers, feed, unsubscribed>>

\* a transaction calling token.mint(to, amount) is mined
Mint ==
    /\ ledger.tokenCalls < MaxTokenCalls
    /\ \E token \in Tokens, to \in Accounts, amount \in TokenAmounts \ {0} :
        ledger' = [mint(ledger, token, to, amount) EXCEPT !.tokenCalls = @ + 1]
    /\ UNCHANGED <<entities, signer, now, calls, faults, rt, watchers, feed, unsubscribed>>

\* a transaction calling token.transfer(to, value) is sent by from and mined;
\* when it reverts the balances are as before
Transfer ==
    /\ ledger.tokenCalls < MaxTokenCalls
    /\ \E token \in Tokens, from \in Senders, to \in Accounts, value \in TokenAmounts :
        ledger' = [transfer(ledger, token, from, to, value).ledger EXCEPT !.tokenCalls = @ + 1]
    /\ UNCHANGED <<entities, signer, now, calls, faults, rt, watchers, feed, unsubscribed>>

\* a transaction calling token.transferFrom(from, to, value) is sent by
\* spender and mined; when it reverts balances and allowances are as before
TransferFrom ==
    /\ ledger.tokenCalls < MaxTokenCalls
    /\ \E token \in Tokens, spender \in Senders, from \in Senders, to \in Accounts,
          value \in TokenAmounts :
        ledger' = [transferFrom(ledger, token, spender, from, to, value).ledger
                        EXCEPT !.tokenCalls = @ + 1]
    /\ UNCHANGED <<entities, signer, now, calls, faults, rt, watchers, feed, unsubscribed>>

\* setUp: the contracts are deployed, the constructor of each token minting
\* to the test contract; BASE is minted to the creator and QUOTE to the
\* acceptor; nobody has approved anything
SettlementInit ==
    /\ entities = <<>>
    /\ signer = NoSigner
    /\ now = StartTime
    /\ calls = [c \in CallIds |-> IdleCall]
    /\ faults = 0
    /\ rt = RtIdle
    /\ watchers = <<>>
    /\ feed = <<>>
    /\ unsubscribed = <<>>
    /\ ledger = [balances |-> [token \in Tokens |-> [account \in Accounts |->
                                IF account = Deployer THEN DeployerMinted
                                ELSE IF token = "BASE" /\ account = "creator" THEN CreatorMinted
                                ELSE IF token = "QUOTE" /\ account = "acceptor" THEN AcceptorMinted
                                ELSE 0]],
                 allowances |-> [token \in Tokens |-> [owner \in Accounts |->
                                    [spender \in Accounts |-> 0]]],
                 trades |-> 0,
                 transactions |-> 0,
                 tokenCalls |-> 0]

SettlementNext ==
    \/ ExecuteSwap(1)
    \/ Approve
    \/ Mint
    \/ Transfer
    \/ TransferFrom

SettlementSpec == SettlementInit /\ [][SettlementNext]_vars

\* the step in which a transaction calling executeSwap is mined
SwapMined(c) ==
    /\ calls'[c].op = "executeSwap"
    /\ ledger'.transactions = ledger.transactions + 1

\* the addresses and amounts that executeSwap requires
SwapArgumentsValid(rfq, sender) ==
    /\ rfq.creator # ZeroAddress
    /\ sender # ZeroAddress
    /\ rfq.baseToken # ZeroAddress
    /\ rfq.quoteToken # ZeroAddress
    /\ rfq.baseAmount > 0
    /\ rfq.quoteAmount > 0
    /\ sender # rfq.creator

\* C31 as stated: a successful executeSwap moves exactly baseAmount of the
\* base token from the creator to the acceptor and exactly quoteAmount of the
\* quote token from the acceptor to the creator; when an address or amount is
\* zero, the acceptor is the creator, or an allowance or a balance is short,
\* the call reverts and every balance is as before.
C31_SwapMovesBothAmounts ==
    [][\A c \in CallIds :
        SwapMined(c)
            => LET rfq == calls'[c].input.rfq
                   sender == calls'[c].input.sender
                   before == ledger.balances
                   after == ledger'.balances
                   required ==
                        /\ SwapArgumentsValid(rfq, sender)
                        /\ allowance(ledger, rfq.baseToken, rfq.creator) >= rfq.baseAmount
                        /\ allowance(ledger, rfq.quoteToken, sender) >= rfq.quoteAmount
                        /\ before[rfq.baseToken][rfq.creator] >= rfq.baseAmount
                        /\ before[rfq.quoteToken][sender] >= rfq.quoteAmount
               IN  IF required
                   THEN /\ Succeeded(calls'[c])
                        /\ after[rfq.baseToken][rfq.creator] =
                                before[rfq.baseToken][rfq.creator] - rfq.baseAmount
                        /\ after[rfq.baseToken][sender] =
                                before[rfq.baseToken][sender] + rfq.baseAmount
                        /\ after[rfq.quoteToken][sender] =
                                before[rfq.quoteToken][sender] - rfq.quoteAmount
                        /\ after[rfq.quoteToken][rfq.creator] =
                                before[rfq.quoteToken][rfq.creator] + rfq.quoteAmount
                   ELSE /\ Failed(calls'[c], "Error")
                        /\ after = before]_vars

\* both parties approved the settlement contract for 1 BASE and the acceptor,
\* who holds no BASE, accepted an RFQ of 1 BASE for 1 BASE: the swap was
\* executed and the balances are those of setUp
C31_SameTokenSwapped ==
    /\ calls[1].op = "executeSwap"
    /\ Succeeded(calls[1])
    /\ calls[1].input.sender = "acceptor"
    /\ calls[1].input.rfq.creator = "creator"
    /\ calls[1].input.rfq.baseToken = "BASE"
    /\ calls[1].input.rfq.quoteToken = "BASE"
    /\ calls[1].input.rfq.baseAmount = 1
    /\ calls[1].input.rfq.quoteAmount = 1
    /\ ledger.transactions = 1
    /\ ledger.trades = 1
    /\ ledger.balances["BASE"]["creator"] = CreatorMinted
    /\ ledger.balances["BASE"]["acceptor"] = 0
    /\ ledger.balances["QUOTE"]["acceptor"] = AcceptorMinted

\* C32: two updateRFQ or cancelRFQ calls on one id are not serialized. A
\* write of such a call stores the record the call merged from its own
\* snapshot, whatever the store holds by then; so when another call that read
\* the same snapshot has written before, the properties that only the other
\* call changed are again those of the snapshot (last write wins).
C32_LastWriteWins ==
    [][\A c \in CallIds, d \in CallIds :
        (/\ c # d
         /\ calls[c].op \in {"updateRFQ", "cancelRFQ"}
         /\ Commits(c)
         /\ calls[d].op \in {"updateRFQ", "cancelRFQ"}
         /\ calls[d].id = calls[c].id
         /\ calls[d].commits >= 1
         /\ calls[d].existingRFQ = calls[c].existingRFQ)
            => /\ entities'[calls[c].id].data = calls[c].data
               /\ \A k \in DOMAIN calls[d].input \ DOMAIN calls[c].input :
                    entities'[calls[c].id].data[k] = calls[c].existingRFQ[k]]_vars

\* two updateRFQ calls read the same record and both wrote; the store holds
\* the record of the one that changed baseAmount, with the quoteAmount of the
\* snapshot and not the one the other call had written
C32_EarlierUpdateLost ==
    \E c \in CallIds, d \in CallIds :
        /\ c # d
        /\ calls[c].op = "updateRFQ" /\ calls[d].op = "updateRFQ"
        /\ Succeeded(calls[c]) /\ Succeeded(calls[d])
        /\ calls[c].id = calls[d].id
        /\ calls[c].existingRFQ = calls[d].existingRFQ
        /\ calls[c].commits = 1 /\ calls[d].commits = 1
        /\ "baseAmount" \in DOMAIN calls[c].input
        /\ "quoteAmount" \in DOMAIN calls[d].input
        /\ entities[calls[c].id].data = calls[c].data
        /\ calls[d].outcome.value.quoteAmount # calls[d].existingRFQ.quoteAmount
        /\ entities[calls[c].id].data.quoteAmount = calls[d].existingRFQ.quoteAmount

\* C33: from the first attempt of the write of createRFQ, updateRFQ or
\* cancelRFQ to the last, through every rejection, backoff and new
\* invocation, the entity key, the data (its updatedAt included) and the
\* signature that writeEntity is given do not change, and the write that
\* the store does stores that data; between the attempts of deleteRFQ the key
\* to delete does not change.
C33_RetriesRepeatTheCall ==
    [][\A c \in CallIds :
        (/\ calls[c].fn \in {"writeEntity", "deleteEntity"}
         /\ calls[c].pc \in {calls[c].fn, "sleep"}
         /\ calls'[c] # calls[c])
            => /\ calls'[c].id = calls[c].id
               /\ calls'[c].fn = calls[c].fn
               /\ calls'[c].pc \in {calls[c].fn, "sleep", "done"}
               /\ calls[c].fn = "writeEntity"
                    => /\ calls'[c].data = calls[c].data
                       /\ calls'[c].signature = calls[c].signature
                       /\ WriteOptions(calls'[c]) = WriteOptions(calls[c])
                       /\ Commits(c)
                            => /\ calls[c].pc = "sleep"
                               /\ entities'[calls[c].id].data = calls[c].data
               /\ calls[c].fn = "deleteEntity"
                    => /\ calls'[c].existingRFQ = calls[c].existingRFQ
                       /\ DOMAIN entities' \in {DOMAIN entities, DOMAIN entities \ {calls[c].id}}]_vars

\* the third writeEntity of an updateRFQ took effect a second after the data
\* was stamped: the store holds the data with the earlier updatedAt
C33_ThirdAttemptWroteSame ==
    /\ calls[1].op = "updateRFQ"
    /\ Succeeded(calls[1])
    /\ calls[1].invoked.writeEntity = 3
    /\ calls[1].commits = 1
    /\ entities[calls[1].id].data = calls[1].data
    /\ calls[1].data.updatedAt < now
    /\ calls[1].signature.message.updatedAt = calls[1].data.updatedAt

\* ---------------------------------------------------------------------
\* Updates of the amounts
\* ---------------------------------------------------------------------

\* UpdateRFQInput with amounts: one that validateAmount accepts, and a zero,
\* a decimal fraction and an empty string
AmountUpdates ==
    {[baseAmount |-> <<"1", "5", "0", "0">>],
     [baseAmount |-> <<"0">>],
     [quoteAmount |-> <<"1", ".", "5">>],
     [quoteAmount |-> <<>>]}

AmountInit ==
    /\ entities \in {<<>>, StoreOf(EarlierRFQ)}
    /\ signer \in {s \in Signers : s.address = AddrAlice}
    /\ now = StartTime
    /\ calls = [c \in CallIds |-> IdleCall]
    /\ faults = MaxFaults     \* the store does not fail
    /\ rt = RtIdle
    /\ watchers = <<>>
    /\ feed = <<>>
    /\ unsubscribed = <<>>
    /\ ledger = NoLedger

AmountNext ==
    \/ NoCallInFlight /\ \E c \in CallIds : createRFQ(c, CreateInputs(now))
    \/ NoCallInFlight /\ \E c \in CallIds : updateRFQ(c, StoredIds, AmountUpdates)
    \/ \E c \in CallIds : GetEntityReturns(c)
    \/ \E c \in CallIds : GetAddressReturns(c)
    \/ \E c \in CallIds : SignMessageReturns(c)
    \/ \E c \in CallIds : WriteEntityReturns(c)

AmountSpec == AmountInit /\ [][AmountNext]_vars

\* a string of decimal digits that denotes a number greater than zero (one
\* of the digits is not 0), which validateAmount accepts
PositiveAmount(amount) ==
    /\ amount # <<>>
    /\ \A i \in 1..Len(amount) : amount[i] \in Digits
    /\ \E i \in 1..Len(amount) : amount[i] # "0"
    /\ validateAmount(amount, <<"a", "m", "o", "u", "n", "t">>) = Valid

\* C34: in every state, each stored RFQ has a baseAmount and a quoteAmount
\* that are strings of decimal digits denoting a number greater than zero and
\* that validateAmount accepts.
C34_StoredAmountsValid ==
    \A id \in DOMAIN entities :
        /\ PositiveAmount(entities[id].data.baseAmount)
        /\ PositiveAmount(entities[id].data.quoteAmount)

\* updateRFQ(id, {baseAmount: '0'}) returned and the store holds the RFQ with
\* baseAmount '0'
C34_ZeroAmountStored ==
    \E c \in CallIds :
        /\ calls[c].op = "updateRFQ"
        /\ Succeeded(calls[c])
        /\ calls[c].input = [baseAmount |-> <<"0">>]
        /\ calls[c].outcome.value.baseAmount = <<"0">>
        /\ entities[calls[c].id].data.baseAmount = <<"0">>
        /\ validateAmount(<<"0">>, <<"b", "a", "s", "e", "A", "m", "o", "u", "n", "t">>) # Valid

\* C35: the updatedAt of a stored RFQ is never less than its createdAt, and
\* a write never stores an updatedAt less than the one it replaces, whatever
\* the interleaving of updateRFQ and cancelRFQ calls on the id (RaceSpec; the
\* clock never goes back).
C35_UpdatedAtNeverDecreases ==
    [][/\ now' >= now
       /\ \A id \in DOMAIN entities' :
            /\ entities'[id].data.updatedAt >= entities'[id].data.createdAt
            /\ id \in DOMAIN entities
                => entities'[id].data.updatedAt >= entities[id].data.updatedAt]_vars

\* two calls on one id have written; the store holds the record of the call
\* that read the clock first, whose updatedAt is less than the one the other
\* call had stored
C35_OlderStampStoredLast ==
    \E c \in CallIds, d \in CallIds :
        /\ c # d
        /\ Succeeded(calls[c]) /\ Succeeded(calls[d])
        /\ calls[c].op \in {"updateRFQ", "cancelRFQ"}
        /\ calls[d].op \in {"updateRFQ", "cancelRFQ"}
        /\ calls[c].id = calls[d].id
        /\ calls[c].id \in DOMAIN entities
        /\ entities[calls[c].id].data = calls[c].data
        /\ calls[d].commits = 1
        /\ calls[d].outcome.value.updatedAt > entities[calls[c].id].data.updatedAt

\* C36: once a deleteRFQ(id) call has returned, the store holds no entity
\* under id, also when an updateRFQ or cancelRFQ on id had read the record
\* before the delete (RaceSpec, where nothing creates an RFQ).
C36_DeletedStaysDeleted ==
    \A c \in CallIds :
        (calls[c].op = "deleteRFQ" /\ Succeeded(calls[c]))
            => calls[c].id \notin DOMAIN entities

\* deleteRFQ returned, and the updateRFQ that had read the record before has
\* since written it: the store holds the RFQ again
C36_WrittenAfterDelete ==
    \E c \in CallIds, d \in CallIds :
        /\ calls[c].op = "deleteRFQ"
        /\ Succeeded(calls[c])
        /\ calls[c].commits = 1
        /\ calls[d].op \in {"updateRFQ", "cancelRFQ"}
        /\ Succeeded(calls[d])
        /\ calls[d].id = calls[c].id
        /\ calls[c].id \in DOMAIN entities
        /\ entities[calls[c].id].data = calls[d].data

\* C37: the signature that an updateRFQ or cancelRFQ call attaches to its
\* write was given by the signer whose address the call checked against the
\* creator, also when setSigner was called while the call was suspended.
C37_CheckedSignerSigns ==
    \A c \in CallIds :
        (calls[c].op \in {"updateRFQ", "cancelRFQ"} /\ calls[c].signature # Null)
            => /\ \E s \in Signers :
                    /\ s.name = calls[c].signature.signedBy
                    /\ s.address = calls[c].signerAddress
               /\ IsCreator(calls[c].existingRFQ, calls[c].using.address)

\* an update of an RFQ of one account was written with the signature of the
\* wallet of another account: setSigner was called while getAddress of the
\* creator's wallet was awaited
C37_OtherSignerSigned ==
    \E c \in CallIds :
        /\ calls[c].op = "updateRFQ"
        /\ Succeeded(calls[c])
        /\ calls[c].commits = 1
        /\ calls[c].signerAddress = calls[c].existingRFQ.creator
        /\ calls[c].signature.signedBy = "bob"
        /\ calls[c].existingRFQ.creator # AddrBob
        /\ toLowerCase(calls[c].existingRFQ.creator) # toLowerCase(AddrBob)
        /\ entities[calls[c].id].data.creator = calls[c].existingRFQ.creator

\* C38 (FeedSpec): when the store notifies the watchers of an updated record,
\* each watcher registered with onUpdated whose filters the record matches
\* has one of its handlers called, once: onCancelled, onFilled or onUpdated,
\* with the mapped record; its onCreated is not called.
C38_OneHandlerPerUpdate ==
    [][Delivers("updated")
        => LET n == feed'[Len(feed')] IN
           \A i \in 1..Len(watchers) :
                ("onUpdated" \in watchers[i].handlers /\ Reaches(watchers[i], n))
                    => LET mine == CallsTo(watchers[i].watch, n) IN
                       /\ Len(mine) = 1
                       /\ mine[1].handler \in {"onCancelled", "onFilled", "onUpdated"}
                       /\ mine[1].handler \in watchers[i].handlers
                       /\ mine[1].rfq = entityToRFQ(n.entity)
                       /\ \A j \in 1..Len(n.called) :
                            n.called[j].watch = watchers[i].watch
                                => n.called[j].handler # "onCreated"]_vars

\* a watcher with all four handlers was notified of the update of a cancelled
\* RFQ: its onCancelled was called and nothing else
C38_CancelledAloneCalled ==
    /\ Len(watchers) >= 1
    /\ watchers[1].handlers = Handlers
    /\ feed # <<>>
    /\ feed[Len(feed)].eventType = "updated"
    /\ feed[Len(feed)].entity.data.status = "CANCELLED"
    /\ CallsTo(watchers[1].watch, feed[Len(feed)]) =
            <<[watch |-> watchers[1].watch, handler |-> "onCancelled",
               rfq |-> entityToRFQ(feed[Len(feed)].entity)]>>

\* C39: the record that createRFQ writes has filledAmount '0' and no fills,
\* whether or not the input gives a minFillAmount.
C39_CreatedUnfilled ==
    \A c \in CallIds :
        (calls[c].op = "createRFQ" /\ calls[c].data # Null)
            => /\ calls[c].data.filledAmount = <<"0">>
               /\ calls[c].data.fills = <<>>
               /\ Succeeded(calls[c])
                    => /\ calls[c].outcome.value.filledAmount = <<"0">>
                       /\ calls[c].outcome.value.fills = <<>>

\* createRFQ with minFillAmount '500' returned; the stored RFQ has no fills
\* and filledAmount '500'
C39_MinFillStoredAsFilled ==
    \E c \in CallIds :
        /\ calls[c].op = "createRFQ"
        /\ Succeeded(calls[c])
        /\ calls[c].input.minFillAmount = {<<"5", "0", "0">>}
        /\ calls[c].id \in DOMAIN entities
        /\ entities[calls[c].id].data.filledAmount = <<"5", "0", "0">>
        /\ entities[calls[c].id].data.fills = <<>>
        /\ calls[c].outcome.value.filledAmount = <<"5", "0", "0">>

====
